---------------------------- MODULE Spec2Model ----------------------------
(***************************************************************************)
(* Pulsar-M client (srgsf/tvh-pulsar): the command exchange of client.go   *)
(* over the buffered transport of io.go.                                   *)
(*                                                                         *)
(* Bytes are naturals 0..255, byte slices are sequences.  Offsets in the   *)
(* comments are the 0-based offsets of the Go source; sequences here are   *)
(* 1-based, so Go's response[k] is response[k+1].                          *)
(***************************************************************************)
EXTENDS Integers, Sequences, FiniteSets, TLC

(***************************************************************************)
(* Program constants.                                                      *)
(***************************************************************************)
minFrameLen == 10
fnError == 0
fnReadValues == 1
fnReadSysTime == 4
MaxUint16 == 65535
crcPoly == 40961
hdrLen == 6
minBody == 5

(***************************************************************************)
(* Bounds of the model.                                                    *)
(***************************************************************************)
MaxCommands == 3
MaxFrames == 2
MaxResets == 2
MaxCalls == 4

(***************************************************************************)
(* Byte helpers.                                                           *)
(***************************************************************************)
Min(a, b) == IF a < b THEN a ELSE b

Max(a, b) == IF a > b THEN a ELSE b

Zeros(n) == [i \in 1..n |-> 0]

Last(seq) == seq[Len(seq)]

(***************************************************************************)
(* a ^ b: the bit of weight w of a is flipped where b has it.  The xor of  *)
(* two bytes is tabulated once; a uint16 is xor-ed byte by byte.           *)
(***************************************************************************)
Flip(x, b, w) ==
    IF (b \div w) % 2 = 0 THEN x
    ELSE IF (x \div w) % 2 = 1 THEN x - w ELSE x + w

Xor8(a, b) ==
    Flip(Flip(Flip(Flip(Flip(Flip(Flip(Flip(a,
        b, 1), b, 2), b, 4), b, 8), b, 16), b, 32), b, 64), b, 128)

xorTable == [a \in 0..255 |-> [b \in 0..255 |-> Xor8(a, b)]]

Xor16(a, b) ==
    xorTable[a % 256][b % 256] + 256 * xorTable[a \div 256][b \div 256]

BigEndian16(v) == << v \div 256, v % 256 >>

LittleEndian16(v) == << v % 256, v \div 256 >>

LittleEndianUint16(b) == b[1] + 256 * b[2]

PutUint32BigEndian(u) == BigEndian16(u.hi) \o BigEndian16(u.lo)

(***************************************************************************)
(* type crc uint16: reset and update.                                      *)
(***************************************************************************)
reset == 65535

crcShiftLeft(v) == IF v % 2 = 1 THEN Xor16((v * 2) % 65536, crcPoly) ELSE (v * 2) % 65536

crcShift(v) == IF v % 2 = 1 THEN Xor16(v \div 2, crcPoly) ELSE v \div 2

crcBits[v \in Nat, i \in Nat] ==
    IF i = 8 THEN v ELSE crcBits[crcShift(v), i + 1]

crcByte[v \in Nat, byte \in Nat] == crcBits[Xor16(v, byte), 0]

crcRun[v \in Nat, data \in Seq(Nat)] ==
    IF data = << >> THEN v ELSE crcRun[crcByte[v, Head(data)], Tail(data)]

update(crc, data) == crcRun[crc, data]

(***************************************************************************)
(* Errors (encoding.go, client.go) as records; a failure of a Conn method  *)
(* is IoErr(method).                                                       *)
(***************************************************************************)
Err(kind, at, code) == [kind |-> kind, at |-> at, code |-> code]

NoErr == Err("nil", "", 0)

Pending == Err("pending", "", 0)

IoErr(op) == Err("io", op, 0)

ErrInvalidFrame == Err("ErrInvalidFrame", "", 0)

ErrCRC == Err("ErrCRC", "", 0)

ErrTooShort == Err("ErrTooShort", "", 0)

ErrWrongFunction == Err("worng function in response", "", 0)

ProtocolError(code) == Err("ProtocolError", "", code)

NoResult == [err |-> Pending, data |-> << >>]

Call(op, ok, n) == [op |-> op, ok |-> ok, n |-> n]

(***************************************************************************)
(* checkCrc: the last two bytes, little-endian, against the crc of the     *)
(* bytes before them.                                                      *)
(***************************************************************************)
checkCrcLowByte(response) ==
    LET ln == Len(response) - 2
    IN  IF ln <= 0 THEN ErrTooShort
        ELSE IF response[ln + 1] # update(reset, SubSeq(response, 1, ln)) % 256
             THEN ErrCRC
             ELSE NoErr

checkCrc(response) ==
    LET ln == Len(response) - 2
    IN  IF ln <= 0 THEN ErrTooShort
        ELSE IF LittleEndianUint16(SubSeq(response, ln + 1, ln + 2))
                    # update(reset, SubSeq(response, 1, ln))
             THEN ErrCRC
             ELSE NoErr

(***************************************************************************)
(* The device addresses on the line, as the 4 big-endian bytes of the      *)
(* uint32: the client is bound to BoundAddress, ForeignAddress is another  *)
(* device of the shared line.                                              *)
(***************************************************************************)
BoundAddress == << 18, 52, 86, 120 >>

ForeignAddress == << 18, 52, 86, 121 >>

(***************************************************************************)
(* Client.ids is a uint32.  It is held as its two 16-bit halves,           *)
(* ids = hi * 65536 + lo, so that no number of the model exceeds 2^31.     *)
(* Since 65536 = 65535 + 1, ids % 65535 = (hi + lo) % 65535.               *)
(***************************************************************************)
NewClientIds == [hi |-> MaxUint16, lo |-> MaxUint16]

AddUint32(u) ==
    IF u.lo = MaxUint16
    THEN [hi |-> (u.hi + 1) % (MaxUint16 + 1), lo |-> 0]
    ELSE [hi |-> u.hi, lo |-> u.lo + 1]

nextIdNoSkip(counter) == counter.lo

nextId(counter) ==
    ((((counter.hi + counter.lo) % MaxUint16) % (MaxUint16 + 1)) + 1) % (MaxUint16 + 1)

(***************************************************************************)
(* Frames on the line: [address:4][function:1][length:1][payload:N]        *)
(* [id:2][crc:2].  The device and the other stations of the line put       *)
(* frames of these shapes on it; sound is FALSE for a frame whose          *)
(* checksum bytes were damaged.                                            *)
(***************************************************************************)
Frame(addr, fn, payload, id, sound) ==
    LET body == addr \o << fn, minFrameLen + Len(payload) >> \o payload \o id
        sum == update(reset, body)
    IN  body \o LittleEndian16(IF sound THEN sum ELSE Xor16(sum, 256))

DeviceFrames ==
    { Frame(BoundAddress, fnReadSysTime, << 7, 9 >>, << 0, 1 >>, TRUE),
      Frame(BoundAddress, fnReadSysTime, << 7, 9 >>, << 0, 2 >>, TRUE),
      Frame(BoundAddress, fnReadSysTime, << >>, << 0, 1 >>, TRUE),
      Frame(BoundAddress, fnReadSysTime, << >>, << 0, 1 >>, FALSE),
      Frame(BoundAddress, fnError, << 2 >>, << 0, 1 >>, TRUE),
      Frame(BoundAddress, fnError, << 2 >>, << 0, 1 >>, FALSE),
      Frame(ForeignAddress, fnError, << 2 >>, << 0, 1 >>, FALSE),
      Frame(ForeignAddress, fnReadSysTime, << >>, << 0, 1 >>, TRUE) }

(***************************************************************************)
(* The requests of the callers of command: SysTime (no payload) and        *)
(* CurValues(1) (the channel mask, little-endian).                         *)
(***************************************************************************)
Requests ==
    { [cmd |-> fnReadSysTime, payload |-> << >>],
      [cmd |-> fnReadValues, payload |-> << 1, 0, 0, 0 >>] }

WriteFailures == { "none", "PrepareWrite", "Write", "WriteCrc", "Flush" }

NoValue == [type |-> "none"]

Uint32Halves == [hi : Nat, lo : Nat]

(***************************************************************************)
(* encoding.go: sysTime and ChannelLog.  A time.Time is held as the wall   *)
(* clock it shows in time.Local: the day, counted from 1 January 1999,     *)
(* and the hour, minute and second of that day.                            *)
(*                                                                         *)
(* time.Date(year, month, day, hour, min, sec, 0, time.Local) normalises   *)
(* its arguments (month 13 is January of the next year, hour 24 the next   *)
(* day, 31 February is 2 or 3 March).  A wall clock that time.Local does   *)
(* not have, because the clocks were put forward over it, is moved to a    *)
(* time that exists: in Europe/Berlin, where 02:00 to 03:00 of the last    *)
(* Sunday of March is skipped, Date answers with the time one hour later.  *)
(***************************************************************************)
ToShort == Err("value too short", "", 0)

ErrUnexpectedEOF == Err("unexpected EOF", "", 0)

Locations == { "UTC", "Europe/Berlin" }

EpochYear == 1999

Years == EpochYear..2300

isLeap(y) == y % 4 = 0 /\ (y % 100 # 0 \/ y % 400 = 0)

daysBefore == << 0, 31, 59, 90, 120, 151, 181, 212, 243, 273, 304, 334, 365 >>

monthStart(y, m) == daysBefore[m] + IF isLeap(y) /\ m >= 3 THEN 1 ELSE 0

leapsThrough(y) == (y \div 4) - (y \div 100) + (y \div 400)

daysSinceEpoch(y) ==
    365 * (y - EpochYear) + leapsThrough(y - 1) - leapsThrough(EpochYear - 1)

Year(t) ==
    CHOOSE y \in Years : daysSinceEpoch(y) <= t.days /\ t.days < daysSinceEpoch(y + 1)

YearDay(t) == t.days - daysSinceEpoch(Year(t))

Month(t) ==
    CHOOSE m \in 1..12 :
        monthStart(Year(t), m) <= YearDay(t) /\ YearDay(t) < monthStart(Year(t), m + 1)

Day(t) == YearDay(t) - monthStart(Year(t), Month(t)) + 1

\* 26 March 2000 was a Sunday
Sunday(t) == (t.days - (daysSinceEpoch(2000) + monthStart(2000, 3) + 25)) % 7 = 0

SkippedByLocal(t, loc) ==
    /\ loc = "Europe/Berlin"
    /\ Month(t) = 3
    /\ Day(t) >= 25
    /\ Sunday(t)
    /\ t.hour = 2

Date(year, month, day, hour, min, sec, loc) ==
    LET m0 == month - 1
        y1 == IF m0 < 0 THEN year - 1 ELSE year + (m0 \div 12)
        m1 == IF m0 < 0 THEN 12 ELSE (m0 % 12) + 1
        min1 == min + (sec \div 60)
        hour1 == hour + (min1 \div 60)
        day1 == day + (hour1 \div 24)
        wall == [days |-> daysSinceEpoch(y1) + monthStart(y1, m1) + day1 - 1,
                 hour |-> hour1 % 24,
                 min |-> min1 % 60,
                 sec |-> sec % 60]
    IN  IF SkippedByLocal(wall, loc) THEN [wall EXCEPT !.hour = 3] ELSE wall

(***************************************************************************)
(* sysTime.UnmarshalBinary(data) and sysTime.MarshalBinary().              *)
(***************************************************************************)
sysTimeLen == 6

sysTimeUnmarshalShortAccepted(t, bin, loc) ==
    IF Len(bin) < sysTimeLen - 1 THEN [err |-> ToShort, t |-> t]
    ELSE LET b == bin \o Zeros(sysTimeLen)
         IN  [err |-> NoErr,
              t |-> Date(2000 + b[1], b[2], b[3], b[4], b[5], b[6], loc)]

sysTimeUnmarshal(t, bin, loc) ==
    IF Len(bin) < sysTimeLen THEN [err |-> ToShort, t |-> t]
    ELSE [err |-> NoErr,
          t |-> Date(2000 + bin[1], bin[2], bin[3], bin[4], bin[5], bin[6], loc)]

sysTimeMarshal(t) ==
    << (Year(t) - 2000) % 256, Month(t), Day(t), t.hour, t.min, t.sec >>

(***************************************************************************)
(* ChannelLog.UnmarshalBinary(data): the length check, the id by           *)
(* binary.Read (little-endian uint32), the start by sysTime's decoder on   *)
(* the next 6 bytes, then one binary.Read of a float32 per round while     *)
(* bytes are left.  A float32 is held as its bits, a uint32 as its 16-bit  *)
(* halves.  binary.Read on fewer than 4 bytes fails with                   *)
(* io.ErrUnexpectedEOF; what was decoded before stays in the record.       *)
(***************************************************************************)
LittleEndianUint32(b) == [hi |-> b[3] + 256 * b[4], lo |-> b[1] + 256 * b[2]]

Float32frombits(u) == [bits |-> u]

Float32s == [bits : Uint32Halves]

readFloats[bin \in Seq(Nat), vals \in Seq(Float32s)] ==
    IF bin = << >> THEN [err |-> NoErr, vals |-> vals]
    ELSE IF Len(bin) < 4 THEN [err |-> ErrUnexpectedEOF, vals |-> vals]
    ELSE readFloats[
             SubSeq(bin, 5, Len(bin)),
             Append(vals, Float32frombits(LittleEndianUint32(SubSeq(bin, 1, 4))))]

ChannelLogUnmarshalSkipsSample(l, bin, loc) ==
    IF Len(bin) < minFrameLen THEN [err |-> ToShort, l |-> l]
    ELSE LET start == sysTimeUnmarshal(NoValue, SubSeq(bin, 5, 10), loc)
             floats == readFloats[SubSeq(bin, 15, Len(bin)), l.Values]
         IN  [err |-> floats.err,
              l |-> [l EXCEPT !.Id = LittleEndianUint32(SubSeq(bin, 1, 4)),
                              !.Start = start.t,
                              !.Values = floats.vals]]

ChannelLogUnmarshal(l, bin, loc) ==
    IF Len(bin) < minFrameLen THEN [err |-> ToShort, l |-> l]
    ELSE LET start == sysTimeUnmarshal(NoValue, SubSeq(bin, 5, 10), loc)
             floats == readFloats[SubSeq(bin, 11, Len(bin)), l.Values]
         IN  [err |-> floats.err,
              l |-> [l EXCEPT !.Id = LittleEndianUint32(SubSeq(bin, 1, 4)),
                              !.Start = start.t,
                              !.Values = floats.vals]]

(***************************************************************************)
(* The exported methods that take channel numbers.  CurValues,             *)
(* PulseWeight, LineTest and InputTest take a list, check it with          *)
(* validateChannels and send makeMask of it; SetCurValue, SetPulseWeight   *)
(* and the three archive methods (through valuesLog) take one channel,     *)
(* refuse 0 and send uint32(1 << (ch - 1)).                                *)
(***************************************************************************)
maxChanNum == 32

fnWriteValue == 3
fnReadArchive == 6
fnReadPulseWeight == 7
fnWritePulseWeight == 8
fnLineTest == 9
fnInputTest == 25
fnWriteSysTime == 5
fnReadSettings == 10
fnWriteSettings == 11

writeOK == 1
resultWR == 0

dayTimeSave == 1
firmwareVer == 5
speed == 8

Hourly == 1
Daily == 2
Monthly == 3

ErrNoChannels == Err("at least a single channel is required", "", 0)

ErrZeroChannel == Err("channel must be non-zero", "", 0)

ErrMaxChannels == Err("maximum %d channels is supported", "", maxChanNum)

ValidationErrors == { ErrNoChannels, ErrZeroChannel, ErrMaxChannels }

validateChannelsZeroAllowed(chs) ==
    IF Len(chs) = 0 THEN ErrNoChannels
    ELSE LET bad == { k \in 1..Len(chs) : chs[k] > maxChanNum }
         IN  IF bad = { } THEN NoErr ELSE ErrMaxChannels

validateChannels(chs) ==
    IF Len(chs) = 0 THEN ErrNoChannels
    ELSE LET bad == { k \in 1..Len(chs) : chs[k] = 0 \/ chs[k] > maxChanNum }
         IN  IF bad = { } THEN NoErr
             ELSE LET first == CHOOSE k \in bad : \A j \in bad : k <= j
                  IN  IF chs[first] = 0 THEN ErrZeroChannel ELSE ErrMaxChannels

\* a uint32 as its two 16-bit halves: 1 << (ch - 1) with ch a uint, which is
\* 0 when the shift count is 32 or more (ch - 1 wraps to 2^64 - 1 for ch = 0)
shiftOne(ch) ==
    IF ch >= 1 /\ ch <= 16 THEN [hi |-> 0, lo |-> 2 ^ (ch - 1)]
    ELSE IF ch >= 17 /\ ch <= 32 THEN [hi |-> 2 ^ (ch - 17), lo |-> 0]
    ELSE [hi |-> 0, lo |-> 0]

\* a + b on uint32
addUint32(a, b) ==
    LET lo == a.lo + b.lo
        hi == a.hi + b.hi + (lo \div (MaxUint16 + 1))
    IN  [hi |-> hi % (MaxUint16 + 1), lo |-> lo % (MaxUint16 + 1)]

maskRun[mask \in Uint32Halves, chs \in Seq(Nat)] ==
    IF chs = << >> THEN mask
    ELSE maskRun[addUint32(mask, shiftOne(Head(chs))), Tail(chs)]

makeMask(chs) == maskRun[[hi |-> 0, lo |-> 0], chs]

\* binary.LittleEndian.PutUint32
PutUint32(u) == LittleEndian16(u.lo) \o LittleEndian16(u.hi)

\* the values and the period the callers pass, as they are marshalled:
\* float64 1.0 and float32 1.0 little-endian, sysTime as
\* [year - 2000, month, day, hour, minute, second]
Float64One == << 0, 0, 0, 0, 0, 0, 240, 63 >>

Float32One == << 0, 0, 128, 63 >>

PeriodOf(arch) ==
    IF arch = Hourly THEN << 24, 5, 17, 13, 0, 0 >> \o << 24, 6, 2, 8, 0, 0 >>
    ELSE IF arch = Daily THEN << 24, 5, 17, 0, 0, 0 >> \o << 24, 6, 2, 0, 0, 0 >>
    ELSE << 24, 5, 1, 0, 0, 0 >> \o << 24, 7, 1, 0, 0, 0 >>

ListApis == { "CurValues", "PulseWeight", "LineTest", "InputTest" }

\* the methods that read a configuration parameter through param, and the
\* parameter each names; SetDayLightSaving(true) writes one through setParam
ParamApis == { "DayLightSaving", "FirmwareVersion", "SerialSpeed" }

ParamOf(api) ==
    CASE api = "FirmwareVersion" -> firmwareVer
      [] api = "SerialSpeed" -> speed
      [] OTHER -> dayTimeSave

ChannelApis == { "SetCurValue", "SetPulseWeight", "HourlyLog", "DailyLog", "MonthlyLog" }

FunctionOf(api) ==
    CASE api = "CurValues" -> fnReadValues
      [] api = "PulseWeight" -> fnReadPulseWeight
      [] api = "LineTest" -> fnLineTest
      [] api = "InputTest" -> fnInputTest
      [] api = "SetCurValue" -> fnWriteValue
      [] api = "SetPulseWeight" -> fnWritePulseWeight
      [] api \in ParamApis -> fnReadSettings
      [] api = "SetDayLightSaving" -> fnWriteSettings
      [] api = "SetSysTime" -> fnWriteSysTime
      [] OTHER -> fnReadArchive

ArchOf(api) ==
    CASE api = "HourlyLog" -> Hourly
      [] api = "DailyLog" -> Daily
      [] OTHER -> Monthly

\* the check each method makes before it calls command
validateCall(api, chs) ==
    IF api \in ListApis THEN validateChannels(chs)
    ELSE IF api \in ChannelApis /\ chs[1] = 0 THEN ErrZeroChannel ELSE NoErr

\* the payload each method hands to command
payloadOf(api, chs) ==
    IF api \in ListApis THEN PutUint32(makeMask(chs))
    ELSE IF api \in ParamApis THEN LittleEndian16(ParamOf(api))
    ELSE IF api = "SetDayLightSaving"
        THEN LittleEndian16(ParamOf(api)) \o << 1, 0, 0, 0, 0, 0, 0, 0 >>
    ELSE IF api = "SetSysTime" THEN sysTimeMarshal(Date(2024, 5, 17, 13, 0, 0, "UTC"))
    ELSE IF api = "SetCurValue" THEN PutUint32(shiftOne(chs[1])) \o Float64One
    ELSE IF api = "SetPulseWeight" THEN PutUint32(shiftOne(chs[1])) \o Float32One
    ELSE PutUint32(shiftOne(chs[1])) \o LittleEndian16(ArchOf(api)) \o PeriodOf(ArchOf(api))

ChannelLists ==
    { << >>, << 0 >>, << 1 >>, << 2, 1 >>, << 1, 0 >>, << 1, 1 >>, << 17, 3, 32 >>,
      << 32, 32 >>, << 33 >>, << 16, 16 >> }

Channels == { 0, 1, 17, 32, 33 }

ArgsOf(api) == IF api \in ListApis THEN ChannelLists ELSE { << ch >> : ch \in Channels }

(***************************************************************************)
(* What the exported methods make of the return of command (data, err).    *)
(* binary.LittleEndian.Uint16, Uint32 and Uint64 index b[1], b[3] and b[7] *)
(* and panic on a shorter slice, a nil slice included; binary.Read on a    *)
(* bytes.Buffer fails with io.EOF when no byte is left and with            *)
(* io.ErrUnexpectedEOF when fewer are left than the value takes.  A        *)
(* uint64 is held as its four 16-bit words, a float as its bits.  panic    *)
(* is TRUE when the method did not return.                                 *)
(***************************************************************************)
ErrWriteFail == Err("write failed", "", 0)

ErrWrongMask == Err("recorded wrong channel mask", "", 0)

ErrParamWrite == Err("param write fail", "", 0)

ErrEOF == Err("EOF", "", 0)

NewChannelLog == [type |-> "ChannelLog", Id |-> [hi |-> 0, lo |-> 0], Type |-> 0,
                  Start |-> NoValue, Values |-> << >>]

LittleEndianUint64(b) ==
    [w3 |-> b[7] + 256 * b[8], w2 |-> b[5] + 256 * b[6],
     w1 |-> b[3] + 256 * b[4], w0 |-> b[1] + 256 * b[2]]

Float64frombits(u) == [bits |-> u]

\* sort.Slice(chs, func(i, j int) bool { return chs[i] < chs[j] })
sortSlice[chs \in Seq(Nat)] ==
    IF chs = << >> THEN << >>
    ELSE LET k == CHOOSE i \in 1..Len(chs) : \A j \in 1..Len(chs) : chs[i] <= chs[j]
         IN  << chs[k] >>
                 \o sortSlice[SubSeq(chs, 1, k - 1) \o SubSeq(chs, k + 1, Len(chs))]

\* the loop of CurValues (w = 8) and of PulseWeight (w = 4): one
\* binary.Read per channel, the value appended with the channel's number
readChannels[bin \in Seq(Nat), chs \in Seq(Nat), w \in Nat] ==
    IF chs = << >> THEN [err |-> NoErr, vals |-> << >>]
    ELSE IF bin = << >> THEN [err |-> ErrEOF, vals |-> << >>]
    ELSE IF Len(bin) < w THEN [err |-> ErrUnexpectedEOF, vals |-> << >>]
    ELSE LET val == IF w = 8 THEN Float64frombits(LittleEndianUint64(SubSeq(bin, 1, 8)))
                    ELSE Float32frombits(LittleEndianUint32(SubSeq(bin, 1, 4)))
             rest == readChannels[SubSeq(bin, w + 1, Len(bin)), Tail(chs), w]
         IN  [err |-> rest.err,
              vals |-> IF rest.err # NoErr THEN << >>
                       ELSE << [Id |-> Head(chs), Value |-> val] >> \o rest.vals]

\* CurValues and PulseWeight after command: the channels sorted, then the loop
readValuesUnsorted(data, chs, w) == readChannels[data, chs, w]

readValues(data, chs, w) == readChannels[data, sortSlice[chs], w]

Returned(err, value) == [panic |-> FALSE, err |-> err, value |-> value]

Panicked == [panic |-> TRUE, err |-> Pending, value |-> << >>]

DayLightSaving(res) ==
    IF Len(res.data) < 8 THEN Panicked
    ELSE LET rv == LittleEndianUint64(res.data).w0
         IN  Returned(res.err, res.err # NoErr /\ rv # 0)

apiReturn(api, chs, res, loc) ==
    LET data == res.data
    IN  IF api = "DayLightSaving" THEN DayLightSaving(res)
        ELSE IF res.err # NoErr THEN Returned(res.err, << >>)
        ELSE IF api = "SetSysTime"
            THEN IF data = << >> THEN Panicked
                 ELSE Returned(IF data[1] # writeOK THEN ErrWriteFail ELSE NoErr, << >>)
        ELSE IF api \in { "CurValues", "PulseWeight" }
            THEN LET w == IF api = "CurValues" THEN 8 ELSE 4
                     read == readValues(data, chs, w)
                 IN  Returned(read.err, read.vals)
        ELSE IF api \in { "SetCurValue", "SetPulseWeight" }
            THEN IF Len(data) < 4 THEN Panicked
                 ELSE Returned(IF LittleEndianUint32(data) # shiftOne(chs[1])
                               THEN ErrWrongMask ELSE NoErr, << >>)
        ELSE IF api = "SetDayLightSaving"
            THEN IF Len(data) < 2 THEN Panicked
                 ELSE Returned(IF LittleEndianUint16(data) = resultWR
                               THEN NoErr ELSE ErrParamWrite, << >>)
        ELSE IF api = "FirmwareVersion"
            THEN IF Len(data) < 2 THEN Panicked
                 ELSE Returned(NoErr, LittleEndianUint16(data))
        ELSE IF api \in { "SerialSpeed", "LineTest", "InputTest" }
            THEN IF Len(data) < 4 THEN Panicked
                 ELSE Returned(NoErr, LittleEndianUint32(data))
        ELSE LET log == ChannelLogUnmarshal(NewChannelLog, data, loc)
             IN  IF log.err # NoErr THEN Returned(log.err, << >>)
                 ELSE Returned(NoErr, [log.l EXCEPT !.Type = ArchOf(api)])

NoCall == [api |-> "", chs |-> << >>]

NoGot == [panic |-> FALSE, err |-> Pending, value |-> << >>]

\* got, when the caller is at `at' with the return res of command
methodReturn(c, at, res, loc) ==
    IF c = NoCall \/ at # "done" THEN NoGot ELSE apiReturn(c.api, c.chs, res, loc)

VARIABLES
    address,    \* Client.address, big-endian bytes
    ids,        \* Client.ids
    fresh,      \* the client is as NewClient made it (history variable)
    issued,     \* the ids nextId returned, oldest first (history variable)
    pc,         \* position of the caller inside command
    cmd,        \* function code of the request of the running command
    response,   \* readMessage's buffer
    result,     \* what command returned
    trace,      \* the Conn calls of the running command (history variable)
    skipped,    \* frames the address filter dropped in the running command
    ahead,      \* the received bytes of the frame the last header read began at
    inflight,   \* bytes of the frame on the line that have not reached the socket
    sock,       \* bytes that reached the socket and were not read from it
    rbuf,       \* bufio.Reader: the bytes it holds buffered
    wbuf,       \* bufio.Writer: the bytes written and not flushed
    wire,       \* the frames flushed to the line, oldest first
    ncmds,      \* commands started
    nframes,    \* frames put on the line towards the client
    call,       \* the exported method called last and its channel arguments
    got,        \* what the exported method called last returned
    race,       \* the goroutines inside nextId: position, counter seen, id returned
    conn,       \* Client.conn: the number of the connection the client holds
    gone,       \* the connections Reset replaced: line, ids issued by then
    sink,       \* logger.log is set: the connection was made with a ProtocolLogger
    logbuf,     \* logger.buf
    emitted,    \* what logger.Log handed to the ProtocolLogger, oldest first
    zone,       \* time.Local
    udata,      \* the argument data of UnmarshalBinary
    value,      \* the receiver of UnmarshalBinary: a sysTime or a ChannelLog
    ret         \* what UnmarshalBinary and MarshalBinary returned

vars == << address, ids, fresh, issued, pc, cmd, response, result, trace,
           skipped, ahead, inflight, sock, rbuf, wbuf, wire, ncmds, nframes,
           call, got, race, conn, gone, sink, logbuf, emitted, zone, udata, value,
           ret >>

(***************************************************************************)
(* The state of the binary decoders of encoding.go, which no method of     *)
(* the client or of the connection touches.                                *)
(***************************************************************************)
codec == << zone, udata, value, ret >>

(***************************************************************************)
(* type logger (io.go): the capture buffer and the ProtocolLogger, which   *)
(* newConn hands to the reader and to the writer of the connection.        *)
(* loggerWrite is the append of reader.Read and writer.Write after a       *)
(* successful transfer, loggerLog is what logger.Log prints: the prefix    *)
(* and the bytes given to formatMsg.                                       *)
(***************************************************************************)
logger == << sink, logbuf, emitted >>

loggerWriteUnguarded(buf, p) == buf \o p

loggerWrite(buf, p) == IF sink THEN buf \o p ELSE buf

loggerLog(em, prefix, buf) ==
    IF sink THEN Append(em, [prefix |-> prefix, data |-> buf]) ELSE em

(***************************************************************************)
(* Client.writeMessage(request) on a connection whose method wfail fails   *)
(* ("none": no method fails).  err is what writeMessage returns, calls     *)
(* the Conn calls it made, out the bytes that reached the line.            *)
(* binary.Write(c.conn, LittleEndian, check) is one Write of 2 bytes.      *)
(* A failed Flush leaves err nil (client.go:588-592).  buf is what the     *)
(* writes left in the capture buffer, which PrepareWrite had emptied; it   *)
(* is logged and emptied by LogRequest when Flush succeeded.  held is      *)
(* what stays in bufio.Writer, unflushed, when a call failed.              *)
(***************************************************************************)
writeMessageFlushTwice(request, wfail) ==
    LET check == update(reset, request)
        pw == << Call("PrepareWrite", wfail # "PrepareWrite", 0) >>
        w1 == pw \o << Call("Write", wfail # "Write", Len(request)) >>
        f1 == w1 \o << Call("Flush", TRUE, 0) >>
        w2 == f1 \o << Call("Write", wfail # "WriteCrc", 2) >>
        fl == w2 \o << Call("Flush", wfail # "Flush", 0) >>
        whole == request \o LittleEndian16(check)
    IN  IF wfail = "PrepareWrite"
            THEN [err |-> IoErr(wfail), calls |-> pw, out |-> << >>, buf |-> << >>,
                  held |-> << >>]
        ELSE IF wfail = "Write"
            THEN [err |-> IoErr(wfail), calls |-> w1, out |-> << >>, buf |-> << >>,
                  held |-> << >>]
        ELSE IF wfail = "WriteCrc"
            THEN [err |-> IoErr(wfail), calls |-> w2, out |-> request,
                  buf |-> loggerWrite(<< >>, request), held |-> << >>]
        ELSE IF wfail = "Flush"
            THEN [err |-> NoErr, calls |-> fl, out |-> request,
                  buf |-> loggerWrite(<< >>, whole), held |-> LittleEndian16(check)]
        ELSE [err |-> NoErr,
              calls |-> fl \o << Call("LogRequest", TRUE, 0) >>,
              out |-> whole,
              buf |-> loggerWrite(<< >>, whole),
              held |-> << >>]

writeMessage(request, wfail) ==
    LET check == update(reset, request)
        pw == << Call("PrepareWrite", wfail # "PrepareWrite", 0) >>
        w1 == pw \o << Call("Write", wfail # "Write", Len(request)) >>
        w2 == w1 \o << Call("Write", wfail # "WriteCrc", 2) >>
        fl == w2 \o << Call("Flush", wfail # "Flush", 0) >>
        whole == request \o LittleEndian16(check)
    IN  IF wfail = "PrepareWrite"
            THEN [err |-> IoErr(wfail), calls |-> pw, out |-> << >>, buf |-> << >>,
                  held |-> << >>]
        ELSE IF wfail = "Write"
            THEN [err |-> IoErr(wfail), calls |-> w1, out |-> << >>, buf |-> << >>,
                  held |-> << >>]
        ELSE IF wfail = "WriteCrc"
            THEN [err |-> IoErr(wfail), calls |-> w2, out |-> << >>,
                  buf |-> loggerWrite(<< >>, request), held |-> request]
        ELSE IF wfail = "Flush"
            THEN [err |-> NoErr, calls |-> fl, out |-> << >>,
                  buf |-> loggerWrite(<< >>, whole), held |-> whole]
        ELSE [err |-> NoErr,
              calls |-> fl \o << Call("LogRequest", TRUE, 0) >>,
              out |-> whole,
              buf |-> loggerWrite(<< >>, whole),
              held |-> << >>]

(***************************************************************************)
(* command, up to the return of writeMessage: the request is               *)
(* [address][cmd][length][payload][id], its length byte is                 *)
(* byte(len(payload) + minFrameLen).                                       *)
(***************************************************************************)
requestFrameIdLittleEndian(addr, c, payload, id) ==
    addr \o << c, (Len(payload) + minFrameLen) % 256 >> \o payload \o LittleEndian16(id)

requestFrame(addr, c, payload, id) ==
    addr \o << c, (Len(payload) + minFrameLen) % 256 >> \o payload \o BigEndian16(id)

Command(rq, wfail) ==
    /\ pc \in { "idle", "done" }
    /\ ncmds < MaxCommands
    /\ ahead' = << >>
    /\ LET ids1 == AddUint32(ids)
           id == nextId(ids1)
           wm == writeMessage(requestFrame(address, rq.cmd, rq.payload, id), wfail)
       IN  /\ ids' = ids1
           /\ issued' = Append(issued, id)
           /\ cmd' = rq.cmd
           /\ trace' = wm.calls
           /\ wire' = IF wm.out = << >> THEN wire ELSE Append(wire, wm.out)
           /\ wbuf' = wm.held
           /\ IF Last(wm.calls).op = "LogRequest"
              THEN /\ emitted' = loggerLog(emitted, "request", wm.buf)
                   /\ logbuf' = << >>
              ELSE /\ logbuf' = wm.buf
                   /\ UNCHANGED emitted
           /\ IF wm.err # NoErr
              THEN /\ pc' = "done"
                   /\ result' = [err |-> wm.err, data |-> << >>]
              ELSE /\ pc' = "prepRead"
                   /\ result' = NoResult
    /\ ncmds' = ncmds + 1
    /\ response' = << >>
    /\ skipped' = 0
    /\ UNCHANGED codec
    /\ UNCHANGED << address, fresh, inflight, sock, rbuf, nframes, race, conn,
                    gone, sink >>
    /\ got' = methodReturn(call', pc', result', zone)

(***************************************************************************)
(* tcpConn.PrepareRead at the top of readMessage's loop: reader.reset      *)
(* drops what bufio.Reader had buffered, then the deadline is set, which   *)
(* may fail.  The loop's buffer is allocated anew after it.                *)
(***************************************************************************)
PrepareRead(ok) ==
    /\ pc = "prepRead"
    /\ rbuf' = << >>
    /\ logbuf' = << >>
    /\ response' = << >>
    /\ trace' = Append(trace, Call("PrepareRead", ok, 0))
    /\ IF ok
       THEN /\ pc' = "readHeader"
            /\ UNCHANGED result
       ELSE /\ pc' = "done"
            /\ result' = [err |-> IoErr("PrepareRead"), data |-> << >>]
    /\ UNCHANGED << codec, wbuf >>
    /\ UNCHANGED << address, ids, fresh, issued, cmd, skipped, ahead, inflight,
                    sock, wire, ncmds, nframes, call, race, conn, gone, sink,
                    emitted >>
    /\ got' = methodReturn(call, pc', result', zone)

(***************************************************************************)
(* reader.Read(p) with len(p) = want, on bufio.Reader.Read: an empty       *)
(* buffer is filled by one read of the socket, which returns what has      *)
(* arrived; then min(len(p), buffered) bytes are copied.  n is the count   *)
(* returned, which readMessage ignores; buf and sock are the reader's      *)
(* buffer and the socket afterwards.                                       *)
(***************************************************************************)
CanRead == rbuf # << >> \/ sock # << >>

bufioRead(want) ==
    LET filled == IF rbuf = << >> THEN sock ELSE rbuf
        n == Min(want, Len(filled))
    IN  [n |-> n,
         data |-> SubSeq(filled, 1, n),
         buf |-> SubSeq(filled, n + 1, Len(filled)),
         sock |-> IF rbuf = << >> THEN << >> ELSE sock]

(***************************************************************************)
(* readMessage after the header read: n := int(response[5]) - 6.           *)
(***************************************************************************)
bodyLen(header) == header[6] - hdrLen

headerTooShortBelowFour(n) == n < minBody - 1

headerTooShort(n) == n < minBody

(***************************************************************************)
(* readMessage after the body read, on the buffer resp: the address        *)
(* filter, then checkCrc, then the error function.  "continue" is the      *)
(* loop's continue, NoErr the return of the frame.                         *)
(***************************************************************************)
Continue == Err("continue", "", 0)

frameVerdictErrorFirst(resp, addr) ==
    IF SubSeq(resp, 1, 4) # addr THEN Continue
    ELSE IF resp[5] = fnError THEN ProtocolError(resp[7])
    ELSE IF checkCrc(resp) # NoErr THEN checkCrc(resp)
    ELSE NoErr

frameVerdictSkipsDamaged(resp, addr) ==
    IF SubSeq(resp, 1, 4) # addr THEN Continue
    ELSE IF checkCrc(resp) # NoErr THEN Continue
    ELSE IF resp[5] = fnError THEN ProtocolError(resp[7])
    ELSE NoErr

frameVerdict(resp, addr) ==
    IF SubSeq(resp, 1, 4) # addr THEN Continue
    ELSE LET crcErr == checkCrc(resp)
         IN  IF crcErr # NoErr THEN crcErr
             ELSE IF resp[5] = fnError THEN ProtocolError(resp[7])
             ELSE NoErr

(***************************************************************************)
(* command after readMessage returned data: the function check and the     *)
(* slice data[6 : 6+ln], ln = int(data[5]) - minFrameLen.                  *)
(***************************************************************************)
commandReturnWithId(data, c) ==
    IF data[5] # c
    THEN [err |-> ErrWrongFunction, data |-> << >>]
    ELSE [err |-> NoErr, data |-> SubSeq(data, 7, Len(data) - 2)]

commandReturnIdChecked(data, c) ==
    IF data[5] # c \/ SubSeq(data, Len(data) - 3, Len(data) - 2) # << 0, 1 >>
    THEN [err |-> ErrWrongFunction, data |-> << >>]
    ELSE LET ln == data[6] - minFrameLen
         IN  [err |-> NoErr, data |-> SubSeq(data, 7, 6 + ln)]

commandReturn(data, c) ==
    IF data[5] # c
    THEN [err |-> ErrWrongFunction, data |-> << >>]
    ELSE LET ln == data[6] - minFrameLen
         IN  [err |-> NoErr, data |-> SubSeq(data, 7, 6 + ln)]

(***************************************************************************)
(* The header read of readMessage's loop: Read into 6 zeroed bytes, the    *)
(* length check, the allocation of the body.                               *)
(***************************************************************************)
ReadHeader ==
    /\ pc = "readHeader"
    /\ CanRead
    /\ LET r == bufioRead(hdrLen)
           header == r.data \o Zeros(hdrLen - r.n)
           n == bodyLen(header)
       IN  /\ rbuf' = r.buf
           /\ sock' = r.sock
           /\ logbuf' = loggerWrite(logbuf, header)
           /\ ahead' = SubSeq(rbuf \o sock, 1, Min(Len(rbuf \o sock), Max(hdrLen, header[6])))
           /\ trace' = Append(trace, Call("Read", TRUE, r.n))
           /\ IF headerTooShort(n)
              THEN /\ response' = header
                   /\ pc' = "done"
                   /\ result' = [err |-> ErrInvalidFrame, data |-> << >>]
              ELSE /\ response' = header \o Zeros(n)
                   /\ pc' = "readBody"
                   /\ UNCHANGED result
    /\ UNCHANGED << codec, wbuf >>
    /\ UNCHANGED << address, ids, fresh, issued, cmd, skipped, inflight, wire,
                    ncmds, nframes, call, race, conn, gone, sink, emitted >>
    /\ got' = methodReturn(call, pc', result', zone)

(***************************************************************************)
(* The body read of readMessage's loop and everything after it: one Read   *)
(* into response[6:], the address filter, checkCrc, the error function,    *)
(* LogResponse, and command's function check and slice.                    *)
(***************************************************************************)
ReadBody ==
    /\ pc = "readBody"
    /\ CanRead
    /\ LET want == Len(response) - hdrLen
           r == bufioRead(want)
           body == r.data \o Zeros(want - r.n)
           resp == SubSeq(response, 1, hdrLen) \o body
           captured == loggerWrite(logbuf, body)
           verdict == frameVerdict(resp, address)
           read == Append(trace, Call("Read", TRUE, r.n))
       IN  /\ rbuf' = r.buf
           /\ sock' = r.sock
           /\ response' = resp
           /\ IF verdict = Continue
              THEN /\ pc' = "prepRead"
                   /\ skipped' = skipped + 1
                   /\ trace' = read
                   /\ logbuf' = captured
                   /\ UNCHANGED << result, emitted >>
              ELSE /\ pc' = "done"
                   /\ UNCHANGED skipped
                   /\ IF verdict # NoErr
                      THEN /\ trace' = read
                           /\ result' = [err |-> verdict, data |-> << >>]
                           /\ logbuf' = captured
                           /\ UNCHANGED emitted
                      ELSE /\ trace' = Append(read, Call("LogResponse", TRUE, 0))
                           /\ result' = commandReturn(resp, cmd)
                           /\ emitted' = loggerLog(emitted, "response", captured)
                           /\ logbuf' = << >>
    /\ UNCHANGED << codec, wbuf >>
    /\ UNCHANGED << address, ids, fresh, issued, cmd, ahead, inflight, wire,
                    ncmds, nframes, call, race, conn, gone, sink >>
    /\ got' = methodReturn(call, pc', result', zone)

(***************************************************************************)
(* A Read of readMessage that returns an error: the deadline passed or     *)
(* the connection failed while bufio.Reader had nothing buffered.          *)
(***************************************************************************)
ReadError ==
    /\ pc \in { "readHeader", "readBody" }
    /\ rbuf = << >>
    /\ trace' = Append(trace, Call("Read", FALSE, 0))
    /\ response' = IF pc = "readHeader" THEN Zeros(hdrLen) ELSE response
    /\ pc' = "done"
    /\ result' = [err |-> IoErr("Read"), data |-> << >>]
    /\ UNCHANGED << codec, wbuf >>
    /\ UNCHANGED << address, ids, fresh, issued, cmd, skipped, ahead, inflight,
                    sock, rbuf, wire, ncmds, nframes, call, race, conn, gone, logger >>
    /\ got' = methodReturn(call, pc', result', zone)

(***************************************************************************)
(* The line: a station puts a frame on it, one frame at a time, and its    *)
(* bytes reach the client's socket in one piece or in several.  Only Read  *)
(* looks at the socket, so the arrivals are followed while the caller is   *)
(* at a Read: bytes that arrive between two reads are to the client the    *)
(* same as bytes that arrive just before the second.                       *)
(***************************************************************************)
Pieces == { 3 }

AtRead == pc \in { "readHeader", "readBody", "discoverRead", "modelRead" }

DeviceSend(f, k) ==
    /\ AtRead
    /\ nframes < MaxFrames
    /\ inflight = << >>
    /\ k \in 1..Len(f)
    /\ sock' = sock \o SubSeq(f, 1, k)
    /\ inflight' = SubSeq(f, k + 1, Len(f))
    /\ nframes' = nframes + 1
    /\ UNCHANGED << codec, wbuf >>
    /\ UNCHANGED << address, ids, fresh, issued, pc, cmd, response, result, trace,
                    skipped, ahead, rbuf, wire, ncmds, call, got, race, conn, gone,
                    logger >>

Deliver(k) ==
    /\ AtRead
    /\ k \in 1..Len(inflight)
    /\ sock' = sock \o SubSeq(inflight, 1, k)
    /\ inflight' = SubSeq(inflight, k + 1, Len(inflight))
    /\ UNCHANGED << codec, wbuf >>
    /\ UNCHANGED << address, ids, fresh, issued, pc, cmd, response, result, trace,
                    skipped, ahead, rbuf, wire, nframes, ncmds, call, got, race, conn,
                    gone, logger >>

(***************************************************************************)
(* NewClient("12345678", conn) on a connection that carried nothing yet    *)
(* and that DialTCP made with no ProtocolLogger: no exported method has    *)
(* been called, no goroutine is inside nextId.                             *)
(***************************************************************************)
NoRet == [at |-> "none", err |-> NoErr, bytes |-> << >>, recv |-> NoValue]

Threads == { 1, 2 }

NoRace == [at |-> [t \in Threads |-> "out"],
           seen |-> [t \in Threads |-> NewClientIds],
           id |-> [t \in Threads |-> 0],
           base |-> NewClientIds,
           calls |-> 0]

InitClient(i) ==
    /\ address = BoundAddress
    /\ ids = i
    /\ pc = "idle"
    /\ cmd = 0
    /\ response = << >>
    /\ result = NoResult
    /\ trace = << >>
    /\ skipped = 0
    /\ ahead = << >>
    /\ inflight = << >>
    /\ sock = << >>
    /\ rbuf = << >>
    /\ wbuf = << >>
    /\ wire = << >>
    /\ ncmds = 0
    /\ nframes = 0
    /\ call = NoCall
    /\ got = NoGot
    /\ race = [NoRace EXCEPT !.base = i]
    /\ conn = 1
    /\ gone = << >>
    /\ sink = FALSE
    /\ logbuf = << >>
    /\ emitted = << >>
    /\ zone = "UTC"
    /\ udata = << >>
    /\ value = NoValue
    /\ ret = NoRet

Init ==
    /\ InitClient(NewClientIds)
    /\ fresh = TRUE
    /\ issued = << >>

Next ==
    \/ \E rq \in Requests, wfail \in WriteFailures :
            pc = "idle" /\ UNCHANGED call /\ Command(rq, wfail)
    \/ \E ok \in BOOLEAN : PrepareRead(ok)
    \/ ReadHeader
    \/ ReadBody
    \/ ReadError
    \/ \E f \in DeviceFrames : \E k \in Pieces \cup { Len(f) } : DeviceSend(f, k)
    \/ \E k \in Pieces \cup { Len(inflight) } : Deliver(k)

Spec == Init /\ [][Next]_vars

(***************************************************************************)
(* Termination of readMessage's loop.  The caller's goroutine keeps        *)
(* running: PrepareRead returns, and a Read returns with the bytes that    *)
(* arrived or, when the deadline PrepareRead set has passed, with the      *)
(* timeout error.  Nothing is assumed of the line.  The line carries one   *)
(* frame of each kind the loop tells apart: accepted, refused by its       *)
(* length (bound and foreign), refused by its checksum, and skipped.       *)
(***************************************************************************)
LiveFrames ==
    { Frame(BoundAddress, fnReadSysTime, << 7, 9 >>, << 0, 1 >>, TRUE),
      Frame(BoundAddress, fnReadSysTime, << >>, << 0, 1 >>, TRUE),
      Frame(BoundAddress, fnError, << 2 >>, << 0, 1 >>, FALSE),
      Frame(ForeignAddress, fnError, << 2 >>, << 0, 1 >>, FALSE),
      Frame(ForeignAddress, fnReadSysTime, << >>, << 0, 1 >>, TRUE) }

ReadStep == ReadHeader \/ ReadBody \/ ReadError

NextLive ==
    \/ \E rq \in Requests, wfail \in WriteFailures :
            pc = "idle" /\ UNCHANGED call /\ Command(rq, wfail)
    \/ \E ok \in BOOLEAN : PrepareRead(ok)
    \/ ReadStep
    \/ \E f \in LiveFrames : \E k \in Pieces \cup { Len(f) } : DeviceSend(f, k)
    \/ \E k \in Pieces \cup { Len(inflight) } : Deliver(k)

SpecLive ==
    /\ Init
    /\ [][NextLive]_vars
    /\ WF_vars(\E ok \in BOOLEAN : PrepareRead(ok))
    /\ WF_vars(ReadStep)

(***************************************************************************)
(* A client that has been in use, on a line on which no station answers:   *)
(* every command ends with a write failure or a failed read.  The counter  *)
(* starts as NewClient left it, or at a value that earlier requests left:  *)
(* shortly before the id 65535 is due, and shortly before the uint32       *)
(* wraps.                                                                  *)
(***************************************************************************)
IdsStart ==
    { NewClientIds,
      [hi |-> 0, lo |-> MaxUint16 - 2],
      [hi |-> MaxUint16, lo |-> MaxUint16 - 2] }

InitIds ==
    \E i \in IdsStart :
        /\ InitClient(i)
        /\ fresh = (i = NewClientIds)
        /\ issued = IF i = NewClientIds THEN << >> ELSE << nextId(i) >>

NextIds ==
    \/ \E rq \in Requests, wfail \in WriteFailures : UNCHANGED call /\ Command(rq, wfail)
    \/ \E ok \in BOOLEAN : PrepareRead(ok)
    \/ ReadError

SpecIds == InitIds /\ [][NextIds]_vars

(***************************************************************************)
(* Client.Reset(conn) between two commands: c.conn = conn.  The            *)
(* connection handed in is a new one, which carried nothing yet; the one   *)
(* it replaces is kept, with the line as the client left it and the        *)
(* number of ids issued by then.                                           *)
(***************************************************************************)
Reset ==
    /\ pc \in { "idle", "done" }
    /\ Len(gone) < MaxResets
    /\ conn' = conn + 1
    /\ gone' = Append(gone, [conn |-> conn, line |-> wire, issued |-> Len(issued)])
    /\ wire' = << >>
    /\ sock' = << >>
    /\ rbuf' = << >>
    /\ wbuf' = << >>
    /\ inflight' = << >>
    /\ logbuf' = << >>
    /\ UNCHANGED codec
    /\ UNCHANGED << address, ids, fresh, issued, pc, cmd, response, result, trace,
                    skipped, ahead, ncmds, nframes, call, got, race, sink, emitted >>

NextReset ==
    \/ \E rq \in Requests, wfail \in WriteFailures : UNCHANGED call /\ Command(rq, wfail)
    \/ \E ok \in BOOLEAN : PrepareRead(ok)
    \/ ReadError
    \/ Reset

SpecReset == InitIds /\ [][NextReset]_vars

(***************************************************************************)
(* Commands one after the other on a line whose device answers late or     *)
(* not at all.  The device answers the requests that reached the line in   *)
(* the order they came, each once, with the address, the function and the  *)
(* id of the request; the bytes of an answer reach the socket while the    *)
(* caller is at a Read, of the command that asked or of a later one.       *)
(***************************************************************************)
ReplyPayload == << 7, 9 >>

ReplyTo(request) ==
    Frame(SubSeq(request, 1, 4), request[5], ReplyPayload,
          SubSeq(request, Len(request) - 3, Len(request) - 2), TRUE)

DeviceReply(k) ==
    /\ nframes < Len(wire)
    /\ DeviceSend(ReplyTo(wire[nframes + 1]), k)

NextLate ==
    \/ \E rq \in Requests, wfail \in WriteFailures : UNCHANGED call /\ Command(rq, wfail)
    \/ \E ok \in BOOLEAN : PrepareRead(ok)
    \/ ReadHeader
    \/ ReadBody
    \/ ReadError
    \/ \E k \in Pieces \cup { minFrameLen + Len(ReplyPayload) } : DeviceReply(k)
    \/ \E k \in Pieces \cup { Len(inflight) } : Deliver(k)

SpecLate == Init /\ [][NextLate]_vars

(***************************************************************************)
(* Two goroutines call nextId on the same client, round after round.       *)
(* nextId is two steps: atomic.AddUint32(&c.ids, 1), whose result is       *)
(* dropped, and the plain read of c.ids in the return statement.  The      *)
(* read races with the other goroutine's add: it yields the counter as     *)
(* the goroutine's own add left it, or as it is now.                       *)
(***************************************************************************)
RaceStart == { NewClientIds, [hi |-> 0, lo |-> MaxUint16 - 2] }

nextIdAdd(t) ==
    /\ race.at[t] = "out"
    /\ ids' = AddUint32(ids)
    /\ race' = [race EXCEPT !.at[t] = "added", !.seen[t] = AddUint32(ids)]
    /\ UNCHANGED << codec, wbuf >>
    /\ UNCHANGED << address, fresh, issued, pc, cmd, response, result, trace,
                    skipped, ahead, inflight, sock, rbuf, wire, ncmds, nframes,
                    call, got, conn, gone, logger >>

nextIdLoad(t) ==
    /\ race.at[t] = "added"
    /\ \E counter \in { race.seen[t], ids } :
           /\ race' = [race EXCEPT !.at[t] = "returned", !.id[t] = nextId(counter)]
           /\ issued' = Append(issued, nextId(counter))
    /\ UNCHANGED << codec, wbuf >>
    /\ UNCHANGED << address, ids, fresh, pc, cmd, response, result, trace,
                    skipped, ahead, inflight, sock, rbuf, wire, ncmds, nframes,
                    call, got, conn, gone, logger >>

\* both goroutines have their ids and call nextId once more
Rejoin ==
    /\ \A t \in Threads : race.at[t] = "returned"
    /\ race.calls + 1 < MaxCommands
    /\ race' = [race EXCEPT !.at = [t \in Threads |-> "out"],
                            !.base = ids,
                            !.calls = race.calls + 1]
    /\ UNCHANGED << codec, wbuf >>
    /\ UNCHANGED << address, ids, fresh, issued, pc, cmd, response, result, trace,
                    skipped, ahead, inflight, sock, rbuf, wire, ncmds, nframes,
                    call, got, conn, gone, logger >>

InitRace ==
    \E i \in RaceStart :
        /\ InitClient(i)
        /\ fresh = (i = NewClientIds)
        /\ issued = << >>

NextRace ==
    \/ \E t \in Threads : nextIdAdd(t)
    \/ \E t \in Threads : nextIdLoad(t)
    \/ Rejoin

SpecRace == InitRace /\ [][NextRace]_vars

Invoke(api, chs, wfail) ==
    /\ pc = "idle"
    /\ call' = [api |-> api, chs |-> chs]
    /\ IF validateCall(api, chs) # NoErr
       THEN /\ pc' = "done"
            /\ result' = [err |-> validateCall(api, chs), data |-> << >>]
            /\ UNCHANGED << address, ids, fresh, issued, cmd, response, trace, skipped,
                            ahead, inflight, sock, rbuf, wire, ncmds, nframes, race,
                            conn, gone, logger, codec, wbuf >>
            /\ got' = methodReturn(call', "done", result', zone)
       ELSE Command([cmd |-> FunctionOf(api), payload |-> payloadOf(api, chs)], wfail)

NextArgs ==
    \/ \E api \in ListApis \cup ChannelApis : \E chs \in ArgsOf(api) :
           \E wfail \in WriteFailures : Invoke(api, chs, wfail)
    \/ \E ok \in BOOLEAN : PrepareRead(ok)
    \/ ReadError

SpecArgs == Init /\ [][NextArgs]_vars

(***************************************************************************)
(* One call of an exported method that decodes the payload of the          *)
(* response itself, on a line whose device answers the request once, with  *)
(* a frame of the request's function or with an error frame.  The payloads *)
(* are of 1, 2, 4, 8, 9, 12, 16 and 24 bytes: whole values, fewer values   *)
(* than the method reads, a value cut short.                               *)
(***************************************************************************)
Apis ==
    { "SetSysTime", "SetCurValue", "SetPulseWeight", "SetDayLightSaving",
      "FirmwareVersion", "SerialSpeed", "LineTest", "InputTest", "DayLightSaving",
      "CurValues", "PulseWeight" }

ApiArgs(api) ==
    IF api \in { "CurValues", "PulseWeight" }
        THEN { << 1 >>, << 2, 1 >>, << 1, 2 >>, << 17, 3, 32 >> }
    ELSE IF api \in ListApis \cup ChannelApis THEN { << 1 >> }
    ELSE { << >> }

ApiPayloads ==
    { << 1 >>, << 0, 0 >>, << 1, 0 >>, << 1, 0, 0, 0 >>,
      << 1, 0, 0, 0, 2, 0, 0, 0 >>, Zeros(8),
      << 1, 0, 0, 0, 2, 0, 0, 0, 3 >>,
      << 1, 0, 0, 0, 2, 0, 0, 0, 3, 0, 0, 0 >>,
      << 1, 0, 0, 0, 0, 0, 0, 0, 2, 0, 0, 0, 0, 0, 0, 0 >>,
      << 1, 0, 0, 0, 0, 0, 0, 0, 2, 0, 0, 0, 0, 0, 0, 0, 3, 0, 0, 0, 0, 0, 0, 0 >> }

Answers == { [fn |-> cmd, payload |-> p] : p \in ApiPayloads }
               \cup { [fn |-> fnError, payload |-> << 2 >>] }

\* the answer reaches the socket whole, or its first bytes do
DeviceAnswer(a, whole) ==
    /\ AtRead
    /\ nframes < Len(wire)
    /\ LET f == Frame(BoundAddress, a.fn, a.payload, BigEndian16(Last(issued)), TRUE)
       IN  DeviceSend(f, IF whole THEN Len(f) ELSE hdrLen + 1)

NextApi ==
    \/ \E api \in Apis : \E chs \in ApiArgs(api) :
           \E wfail \in WriteFailures : Invoke(api, chs, wfail)
    \/ \E ok \in BOOLEAN : PrepareRead(ok)
    \/ ReadHeader
    \/ ReadBody
    \/ ReadError
    \/ \E a \in Answers : \E whole \in BOOLEAN : DeviceAnswer(a, whole)
    \/ Deliver(Len(inflight))

SpecApi == Init /\ [][NextApi]_vars

(***************************************************************************)
(* Discover(conn) and NewClient(address, conn).  Discover formats the      *)
(* uint32 it read with "%08x" and NewClient parses the string with         *)
(* strconv.ParseInt(address, 16, 32).  The string is held as its hex       *)
(* digits, a number as its two 16-bit halves.  ParseInt accumulates the    *)
(* digits and refuses, with a range error, a value that does not fit a     *)
(* signed 32-bit integer.                                                  *)
(***************************************************************************)
discoveryMessage == << 240, 15, 15, 240, 0, 0, 0, 0, 0, 165, 68 >>

BigEndianUint32(b) == [hi |-> b[1] * 256 + b[2], lo |-> b[3] * 256 + b[4]]

Sprintf08x(u) ==
    << u.hi \div 4096, (u.hi \div 256) % 16, (u.hi \div 16) % 16, u.hi % 16,
       u.lo \div 4096, (u.lo \div 256) % 16, (u.lo \div 16) % 16, u.lo % 16 >>

hexValue[acc \in Nat, digits \in Seq(Nat)] ==
    IF digits = << >> THEN acc
    ELSE hexValue[acc * 16 + Head(digits), Tail(digits)]

ErrRange == Err("strconv.ParseInt: value out of range", "", 0)

MaxInt32 == [hi |-> 32767, lo |-> MaxUint16]

ParseInt(str) ==
    LET cut == Max(0, Len(str) - 4)
        un == [hi |-> hexValue[0, SubSeq(str, 1, cut)],
               lo |-> hexValue[0, SubSeq(str, cut + 1, Len(str))]]
    IN  IF un.hi > MaxInt32.hi
        THEN [err |-> ErrRange, i |-> MaxInt32]
        ELSE [err |-> NoErr, i |-> un]

NewClient(str) ==
    LET parsed == ParseInt(str)
    IN  IF parsed.err # NoErr
        THEN [err |-> parsed.err, address |-> << >>]
        ELSE [err |-> NoErr, address |-> PutUint32BigEndian(parsed.i)]

(***************************************************************************)
(* The answers to the discovery frame: 10 bytes, the address of the        *)
(* answering device at offsets 4..7, the checksum last.  Discover does     *)
(* not read offsets 0..3.                                                  *)
(***************************************************************************)
DiscoveryResponse(addr, sound) ==
    LET body == << 0, 0, 0, 0 >> \o addr
        sum == update(reset, body)
    IN  body \o LittleEndian16(IF sound THEN sum ELSE Xor16(sum, 256))

DiscoveredAddresses ==
    { << 0, 0, 0, 0 >>, BoundAddress, << 127, 255, 255, 255 >>,
      << 128, 0, 0, 0 >>, << 255, 255, 255, 255 >> }

DiscoveryResponses ==
    { DiscoveryResponse(a, TRUE) : a \in DiscoveredAddresses }
        \cup { DiscoveryResponse(BoundAddress, FALSE) }

DiscoverFailures == { "none", "PrepareWrite", "Write", "Flush" }

(***************************************************************************)
(* Discover up to LogRequest: PrepareWrite, Write(discoveryMessage),       *)
(* Flush, each of whose errors is returned, then LogRequest.               *)
(***************************************************************************)
Discover(wfail) ==
    /\ pc = "idle"
    /\ address = << >>
    /\ LET pw == << Call("PrepareWrite", wfail # "PrepareWrite", 0) >>
           w1 == pw \o << Call("Write", wfail # "Write", Len(discoveryMessage)) >>
           fl == w1 \o << Call("Flush", wfail # "Flush", 0) >>
       IN  IF wfail = "PrepareWrite"
               THEN trace' = pw /\ logbuf' = << >> /\ UNCHANGED << wire, emitted >>
           ELSE IF wfail = "Write"
               THEN trace' = w1 /\ logbuf' = << >> /\ UNCHANGED << wire, emitted >>
           ELSE IF wfail = "Flush"
               THEN /\ trace' = fl
                    /\ logbuf' = loggerWrite(<< >>, discoveryMessage)
                    /\ UNCHANGED << wire, emitted >>
           ELSE /\ trace' = fl \o << Call("LogRequest", TRUE, 0) >>
                /\ wire' = Append(wire, discoveryMessage)
                /\ emitted' = loggerLog(emitted, "request",
                                        loggerWrite(<< >>, discoveryMessage))
                /\ logbuf' = << >>
    /\ wbuf' = IF wfail = "Flush" THEN discoveryMessage ELSE << >>
    /\ IF wfail = "none"
       THEN pc' = "discoverPrepRead" /\ UNCHANGED result
       ELSE pc' = "done" /\ result' = [err |-> IoErr(wfail), data |-> << >>]
    /\ UNCHANGED codec
    /\ UNCHANGED << address, ids, fresh, issued, cmd, response, skipped, ahead,
                    inflight, sock, rbuf, ncmds, nframes, call, got, race, conn, gone,
                    sink >>

DiscoverPrepareRead(ok) ==
    /\ pc = "discoverPrepRead"
    /\ rbuf' = << >>
    /\ logbuf' = << >>
    /\ trace' = Append(trace, Call("PrepareRead", ok, 0))
    /\ IF ok
       THEN pc' = "discoverRead" /\ UNCHANGED result
       ELSE pc' = "done" /\ result' = [err |-> IoErr("PrepareRead"), data |-> << >>]
    /\ UNCHANGED << codec, wbuf >>
    /\ UNCHANGED << address, ids, fresh, issued, cmd, response, skipped, ahead,
                    inflight, sock, wire, ncmds, nframes, call, got, race, conn, gone,
                    sink, emitted >>

(***************************************************************************)
(* The one Read of Discover into 10 zeroed bytes and all that follows:     *)
(* LogResponse, checkCrc, the address at response[4:8], NewClient.         *)
(***************************************************************************)
DiscoverRead ==
    /\ pc = "discoverRead"
    /\ CanRead
    /\ LET r == bufioRead(minFrameLen)
           resp == r.data \o Zeros(minFrameLen - r.n)
           crcErr == checkCrc(resp)
           made == NewClient(Sprintf08x(BigEndianUint32(SubSeq(resp, 5, 8))))
       IN  /\ rbuf' = r.buf
           /\ sock' = r.sock
           /\ response' = resp
           /\ ahead' = SubSeq(rbuf \o sock, 1, Min(Len(rbuf \o sock), minFrameLen))
           /\ trace' = trace \o << Call("Read", TRUE, r.n), Call("LogResponse", TRUE, 0) >>
           /\ emitted' = loggerLog(emitted, "response", loggerWrite(logbuf, resp))
           /\ logbuf' = << >>
           /\ pc' = "done"
           /\ IF crcErr # NoErr
              THEN /\ result' = [err |-> crcErr, data |-> << >>]
                   /\ UNCHANGED << address, ids, fresh >>
              ELSE IF made.err # NoErr
              THEN /\ result' = [err |-> made.err, data |-> << >>]
                   /\ UNCHANGED << address, ids, fresh >>
              ELSE /\ result' = [err |-> NoErr, data |-> << >>]
                   /\ address' = made.address
                   /\ ids' = NewClientIds
                   /\ fresh' = TRUE
    /\ UNCHANGED << codec, wbuf >>
    /\ UNCHANGED << issued, cmd, skipped, inflight, wire, ncmds, nframes, call, got,
                    race, conn, gone, sink >>

DiscoverReadError ==
    /\ pc = "discoverRead"
    /\ rbuf = << >>
    /\ trace' = Append(trace, Call("Read", FALSE, 0))
    /\ response' = Zeros(minFrameLen)
    /\ pc' = "done"
    /\ result' = [err |-> IoErr("Read"), data |-> << >>]
    /\ UNCHANGED << codec, wbuf >>
    /\ UNCHANGED << address, ids, fresh, issued, cmd, skipped, ahead, inflight,
                    sock, rbuf, wire, ncmds, nframes, call, got, race, conn, gone,
                    logger >>

(***************************************************************************)
(* Discover on a connection that carried nothing yet, made with or         *)
(* without a ProtocolLogger: there is no client before it returns one.     *)
(***************************************************************************)
InitDiscover ==
    /\ address = << >>
    /\ ids = NewClientIds
    /\ fresh = FALSE
    /\ issued = << >>
    /\ pc = "idle"
    /\ cmd = 0
    /\ response = << >>
    /\ result = NoResult
    /\ trace = << >>
    /\ skipped = 0
    /\ ahead = << >>
    /\ inflight = << >>
    /\ sock = << >>
    /\ rbuf = << >>
    /\ wbuf = << >>
    /\ wire = << >>
    /\ ncmds = 0
    /\ nframes = 0
    /\ call = NoCall
    /\ got = NoGot
    /\ race = NoRace
    /\ conn = 1
    /\ gone = << >>
    /\ sink \in BOOLEAN
    /\ logbuf = << >>
    /\ emitted = << >>
    /\ zone = "UTC"
    /\ udata = << >>
    /\ value = NoValue
    /\ ret = NoRet

NextDiscover ==
    \/ \E wfail \in DiscoverFailures : Discover(wfail)
    \/ \E ok \in BOOLEAN : DiscoverPrepareRead(ok)
    \/ DiscoverRead
    \/ DiscoverReadError
    \/ \E f \in DiscoveryResponses : \E k \in Pieces \cup { Len(f) } : DeviceSend(f, k)
    \/ \E k \in Pieces \cup { Len(inflight) } : Deliver(k)

SpecDiscover == InitDiscover /\ [][NextDiscover]_vars

(***************************************************************************)
(* Client.Model: the request is [address][discoveryModel]; Model calls     *)
(* PrepareWrite itself and then writeMessage, which calls it again.  The   *)
(* answers are 10 bytes: the address, two bytes Model does not read, the   *)
(* model id at offsets 6..7, the checksum.                                 *)
(***************************************************************************)
discoveryModel == << 3, 2, 70, 0, 1 >>

ModelResponse(addr, model, sound) ==
    LET body == addr \o << 3, 2 >> \o model
        sum == update(reset, body)
    IN  body \o LittleEndian16(IF sound THEN sum ELSE Xor16(sum, 256))

ModelResponses ==
    { ModelResponse(BoundAddress, << 1, 4 >>, TRUE),
      ModelResponse(BoundAddress, << 1, 4 >>, FALSE),
      ModelResponse(ForeignAddress, << 1, 4 >>, TRUE) }

ModelFailures == { "ModelPrepareWrite" } \cup WriteFailures

Model(wfail) ==
    /\ pc = "idle"
    /\ address # << >>
    /\ LET wm == writeMessage(address \o discoveryModel, wfail)
           pw == << Call("PrepareWrite", wfail # "ModelPrepareWrite", 0) >>
       IN  IF wfail = "ModelPrepareWrite"
           THEN /\ trace' = pw
                /\ wbuf' = << >>
                /\ logbuf' = << >>
                /\ pc' = "done"
                /\ result' = [err |-> IoErr("PrepareWrite"), data |-> << >>]
                /\ UNCHANGED << wire, emitted >>
           ELSE /\ trace' = pw \o wm.calls
                /\ wire' = IF wm.out = << >> THEN wire ELSE Append(wire, wm.out)
                /\ wbuf' = wm.held
                /\ IF Last(wm.calls).op = "LogRequest"
                   THEN /\ emitted' = loggerLog(emitted, "request", wm.buf)
                        /\ logbuf' = << >>
                   ELSE /\ logbuf' = wm.buf
                        /\ UNCHANGED emitted
                /\ IF wm.err # NoErr
                   THEN /\ pc' = "done"
                        /\ result' = [err |-> wm.err, data |-> << >>]
                   ELSE /\ pc' = "modelPrepRead"
                        /\ result' = NoResult
    /\ response' = << >>
    /\ skipped' = 0
    /\ ahead' = << >>
    /\ UNCHANGED codec
    /\ UNCHANGED << address, ids, fresh, issued, cmd, inflight, sock, rbuf, ncmds,
                    nframes, call, got, race, conn, gone, sink >>

ModelPrepareRead(ok) ==
    /\ pc = "modelPrepRead"
    /\ rbuf' = << >>
    /\ logbuf' = << >>
    /\ response' = << >>
    /\ trace' = Append(trace, Call("PrepareRead", ok, 0))
    /\ IF ok
       THEN pc' = "modelRead" /\ UNCHANGED result
       ELSE pc' = "done" /\ result' = [err |-> IoErr("PrepareRead"), data |-> << >>]
    /\ UNCHANGED << codec, wbuf >>
    /\ UNCHANGED << address, ids, fresh, issued, cmd, skipped, ahead, inflight,
                    sock, wire, ncmds, nframes, call, got, race, conn, gone, sink,
                    emitted >>

(***************************************************************************)
(* The one Read of Model's loop into 10 zeroed bytes and all that follows: *)
(* the address filter, LogResponse, checkCrc, the uint16 at response[6:8]. *)
(***************************************************************************)
ModelRead ==
    /\ pc = "modelRead"
    /\ CanRead
    /\ LET r == bufioRead(minFrameLen)
           resp == r.data \o Zeros(minFrameLen - r.n)
           captured == loggerWrite(logbuf, resp)
           crcErr == checkCrc(resp)
           read == Append(trace, Call("Read", TRUE, r.n))
       IN  /\ rbuf' = r.buf
           /\ sock' = r.sock
           /\ response' = resp
           /\ ahead' = SubSeq(rbuf \o sock, 1, Min(Len(rbuf \o sock), minFrameLen))
           /\ IF SubSeq(resp, 1, 4) # address
              THEN /\ pc' = "modelPrepRead"
                   /\ skipped' = skipped + 1
                   /\ trace' = read
                   /\ logbuf' = captured
                   /\ UNCHANGED << result, emitted >>
              ELSE /\ pc' = "done"
                   /\ trace' = Append(read, Call("LogResponse", TRUE, 0))
                   /\ emitted' = loggerLog(emitted, "response", captured)
                   /\ logbuf' = << >>
                   /\ result' = IF crcErr # NoErr
                                THEN [err |-> crcErr, data |-> << >>]
                                ELSE [err |-> NoErr, data |-> SubSeq(resp, 7, 8)]
                   /\ UNCHANGED skipped
    /\ UNCHANGED << codec, wbuf >>
    /\ UNCHANGED << address, ids, fresh, issued, cmd, inflight, wire, ncmds,
                    nframes, call, got, race, conn, gone, sink >>

ModelReadError ==
    /\ pc = "modelRead"
    /\ rbuf = << >>
    /\ trace' = Append(trace, Call("Read", FALSE, 0))
    /\ response' = Zeros(minFrameLen)
    /\ pc' = "done"
    /\ result' = [err |-> IoErr("Read"), data |-> << >>]
    /\ UNCHANGED << codec, wbuf >>
    /\ UNCHANGED << address, ids, fresh, issued, cmd, skipped, ahead, inflight,
                    sock, rbuf, wire, ncmds, nframes, call, got, race, conn, gone,
                    logger >>

(***************************************************************************)
(* One operation of the client on a connection that carried nothing yet:   *)
(* Discover when there is no client, a command or Model on a client bound  *)
(* to BoundAddress.  The connection was made with or without a             *)
(* ProtocolLogger.                                                         *)
(***************************************************************************)
OpsFrames ==
    { Frame(BoundAddress, fnReadSysTime, << 7, 9 >>, << 0, 1 >>, TRUE),
      Frame(BoundAddress, fnError, << 2 >>, << 0, 1 >>, FALSE),
      Frame(ForeignAddress, fnReadSysTime, << >>, << 0, 1 >>, TRUE) }
        \cup ModelResponses

InitOps ==
    /\ address \in { << >>, BoundAddress }
    /\ ids = NewClientIds
    /\ fresh = (address # << >>)
    /\ issued = << >>
    /\ pc = "idle"
    /\ cmd = 0
    /\ response = << >>
    /\ result = NoResult
    /\ trace = << >>
    /\ skipped = 0
    /\ ahead = << >>
    /\ inflight = << >>
    /\ sock = << >>
    /\ rbuf = << >>
    /\ wbuf = << >>
    /\ wire = << >>
    /\ ncmds = 0
    /\ nframes = 0
    /\ call = NoCall
    /\ got = NoGot
    /\ race = NoRace
    /\ conn = 1
    /\ gone = << >>
    /\ sink \in BOOLEAN
    /\ logbuf = << >>
    /\ emitted = << >>
    /\ zone = "UTC"
    /\ udata = << >>
    /\ value = NoValue
    /\ ret = NoRet

NextOps ==
    \/ \E wfail \in DiscoverFailures : Discover(wfail)
    \/ \E ok \in BOOLEAN : DiscoverPrepareRead(ok)
    \/ DiscoverRead
    \/ DiscoverReadError
    \/ \E rq \in Requests, wfail \in WriteFailures :
            pc = "idle" /\ address # << >> /\ UNCHANGED call /\ Command(rq, wfail)
    \/ \E ok \in BOOLEAN : PrepareRead(ok)
    \/ ReadHeader
    \/ ReadBody
    \/ ReadError
    \/ \E wfail \in ModelFailures : Model(wfail)
    \/ \E ok \in BOOLEAN : ModelPrepareRead(ok)
    \/ ModelRead
    \/ ModelReadError
    \/ \E f \in OpsFrames : \E k \in Pieces \cup { Len(f) } : DeviceSend(f, k)
    \/ \E k \in Pieces \cup { Len(inflight) } : Deliver(k)

SpecOps == InitOps /\ [][NextOps]_vars

(***************************************************************************)
(* The inputs of the decoders: 6-byte timestamps, valid and not; the       *)
(* timestamp and the archive payload of the tests, whole and cut short     *)
(* at every length; an archive record that starts in the hour the clocks   *)
(* skip.  The receiver of sysTime.UnmarshalBinary is the zero sysTime,     *)
(* the receiver of ChannelLog.UnmarshalBinary a new record or one that     *)
(* holds a sample of an earlier call; ret.recv keeps the receiver as it    *)
(* was before the call.                                                    *)
(***************************************************************************)
bt == << 22, 2, 3, 4, 5, 6 >>

chanLogPayload ==
    << 1, 0, 0, 0, 22, 9, 5, 13, 0, 0, 6, 137, 44, 68, 6, 137,
       44, 68, 6, 137, 44, 68, 6, 137, 44, 68, 170, 137, 44, 68, 170, 137,
       44, 68, 242, 138, 44, 68, 150, 139, 44, 68, 201, 142, 44, 68, 231, 147,
       44, 68, 231, 147, 44, 68, 231, 147, 44, 68, 211, 149, 44, 68, 211, 149,
       44, 68, 119, 150, 44, 68, 119, 150, 44, 68, 172, 220, 230, 67, 119, 150,
       44, 68, 190, 151, 44, 68, 170, 153, 44, 68, 170, 153, 44, 68, 78, 154,
       44, 68, 78, 154, 44, 68, 78, 154, 44, 68, 242, 154, 44, 68 >>

MaxCut == 19

Timestamps ==
    { << y, m, d, h, 30, s >> :
        y \in { 0, 22, 100, 255 }, m \in { 2, 3, 12, 13 }, d \in { 27, 29, 31 },
        h \in { 2, 23, 24 }, s \in { 0, 59 } }

Inputs ==
    Timestamps
        \cup { SubSeq(bt \o << 7 >>, 1, n) : n \in 0..7 }
        \cup { SubSeq(chanLogPayload, 1, n) : n \in 0..MaxCut }
        \cup { chanLogPayload,
               << 255, 255, 0, 1, 22, 3, 27, 2, 30, 0, 0, 0, 128, 63 >> }

Receivers ==
    { NewChannelLog,
      [NewChannelLog EXCEPT !.Id = [hi |-> 0, lo |-> 2], !.Type = Hourly,
                            !.Values = << Float32frombits(LittleEndianUint32(Float32One)) >>] }

clientAndConn ==
    << address, ids, fresh, issued, pc, cmd, response, result, trace, skipped,
       ahead, inflight, sock, rbuf, wbuf, wire, ncmds, nframes, call, got, race, conn,
       gone, logger >>

UnmarshalSysTime ==
    /\ ret.at = "none"
    /\ value = NoValue
    /\ LET r == sysTimeUnmarshal(value, udata, zone)
       IN  /\ value' = r.t
           /\ ret' = [at |-> "sysTime.UnmarshalBinary", err |-> r.err,
                      bytes |-> << >>, recv |-> value]
    /\ UNCHANGED << zone, udata, clientAndConn >>

MarshalSysTime ==
    /\ ret.at = "sysTime.UnmarshalBinary"
    /\ ret.err = NoErr
    /\ ret' = [ret EXCEPT !.at = "sysTime.MarshalBinary",
                           !.bytes = sysTimeMarshal(value)]
    /\ UNCHANGED << zone, udata, value, clientAndConn >>

UnmarshalChannelLog ==
    /\ ret.at = "none"
    /\ value \in Receivers
    /\ LET r == ChannelLogUnmarshal(value, udata, zone)
       IN  /\ value' = r.l
           /\ ret' = [at |-> "ChannelLog.UnmarshalBinary", err |-> r.err,
                      bytes |-> << >>, recv |-> value]
    /\ UNCHANGED << zone, udata, clientAndConn >>

InitCodec ==
    /\ zone \in Locations
    /\ udata \in Inputs
    /\ value \in { NoValue } \cup Receivers
    /\ ret = NoRet
    /\ address = BoundAddress
    /\ ids = NewClientIds
    /\ fresh = TRUE
    /\ issued = << >>
    /\ pc = "idle"
    /\ cmd = 0
    /\ response = << >>
    /\ result = NoResult
    /\ trace = << >>
    /\ skipped = 0
    /\ ahead = << >>
    /\ inflight = << >>
    /\ sock = << >>
    /\ rbuf = << >>
    /\ wbuf = << >>
    /\ wire = << >>
    /\ ncmds = 0
    /\ nframes = 0
    /\ call = NoCall
    /\ got = NoGot
    /\ race = NoRace
    /\ conn = 1
    /\ gone = << >>
    /\ sink = FALSE
    /\ logbuf = << >>
    /\ emitted = << >>

NextCodec ==
    \/ UnmarshalSysTime
    \/ MarshalSysTime
    \/ UnmarshalChannelLog

SpecCodec == InitCodec /\ [][NextCodec]_vars

(***************************************************************************)
(* tcpConn (io.go) used through the exported Conn interface, its methods   *)
(* called in any order.  newConn gives the reader and the writer the same  *)
(* *logger, so logbuf is the capture buffer of both.  trace keeps every    *)
(* call with the count it returned and its bytes: for Read the buffer p    *)
(* as the call left it, for Write the bytes written, for LogRequest and    *)
(* LogResponse the bytes handed to the ProtocolLogger.                     *)
(***************************************************************************)
ConnCall(op, ok, n, p) == [op |-> op, ok |-> ok, n |-> n, p |-> p]

WritePayloads == { << 1, 2 >>, << 3 >> }

ReadSizes == { 3 }

Chunks == { << 7, 8 >> }

clientOnly ==
    << address, ids, fresh, issued, pc, cmd, response, result, skipped, ahead,
       ncmds, call, got, race, conn, gone >>

ConnPrepareRead(ok) ==
    /\ Len(trace) < MaxCalls
    /\ rbuf' = << >>
    /\ logbuf' = << >>
    /\ trace' = Append(trace, ConnCall("PrepareRead", ok, 0, << >>))
    /\ UNCHANGED << clientOnly, codec, inflight, sock, wbuf, wire, nframes, sink,
                    emitted >>

ConnPrepareWrite(ok) ==
    /\ Len(trace) < MaxCalls
    /\ wbuf' = << >>
    /\ logbuf' = << >>
    /\ trace' = Append(trace, ConnCall("PrepareWrite", ok, 0, << >>))
    /\ UNCHANGED << clientOnly, codec, inflight, sock, rbuf, wire, nframes, sink,
                    emitted >>

\* reader.Read(p), len(p) = want, p zeroed by the caller: logger.buf.Write(p)
ConnRead(want) ==
    /\ Len(trace) < MaxCalls
    /\ CanRead
    /\ LET r == bufioRead(want)
           p == r.data \o Zeros(want - r.n)
       IN  /\ rbuf' = r.buf
           /\ sock' = r.sock
           /\ logbuf' = loggerWrite(logbuf, p)
           /\ trace' = Append(trace, ConnCall("Read", TRUE, r.n, p))
    /\ UNCHANGED << clientOnly, codec, inflight, wbuf, wire, nframes, sink,
                    emitted >>

\* bufio.Reader.Read returned an error: nothing is captured
ConnReadError(want) ==
    /\ Len(trace) < MaxCalls
    /\ rbuf = << >>
    /\ trace' = Append(trace, ConnCall("Read", FALSE, 0, Zeros(want)))
    /\ UNCHANGED << clientOnly, codec, inflight, sock, rbuf, wbuf, wire, nframes,
                    logger >>

\* writer.Write(p): bufio.Writer takes all of p, then logger.buf.Write(p)
ConnWrite(p) ==
    /\ Len(trace) < MaxCalls
    /\ wbuf' = wbuf \o p
    /\ logbuf' = loggerWrite(logbuf, p)
    /\ trace' = Append(trace, ConnCall("Write", TRUE, Len(p), p))
    /\ UNCHANGED << clientOnly, codec, inflight, sock, rbuf, wire, nframes, sink,
                    emitted >>

ConnFlush ==
    /\ Len(trace) < MaxCalls
    /\ wire' = IF wbuf = << >> THEN wire ELSE Append(wire, wbuf)
    /\ wbuf' = << >>
    /\ trace' = Append(trace, ConnCall("Flush", TRUE, 0, << >>))
    /\ UNCHANGED << clientOnly, codec, inflight, sock, rbuf, nframes, logger >>

ConnLogRequest ==
    /\ Len(trace) < MaxCalls
    /\ emitted' = loggerLog(emitted, "request", logbuf)
    /\ logbuf' = << >>
    /\ trace' = Append(trace, ConnCall("LogRequest", TRUE, 0, loggerWrite(<< >>, logbuf)))
    /\ UNCHANGED << clientOnly, codec, inflight, sock, rbuf, wbuf, wire, nframes,
                    sink >>

ConnLogResponse ==
    /\ Len(trace) < MaxCalls
    /\ emitted' = loggerLog(emitted, "response", logbuf)
    /\ logbuf' = << >>
    /\ trace' = Append(trace, ConnCall("LogResponse", TRUE, 0, loggerWrite(<< >>, logbuf)))
    /\ UNCHANGED << clientOnly, codec, inflight, sock, rbuf, wbuf, wire, nframes,
                    sink >>

\* the peer's bytes reach the socket
PeerSend(chunk) ==
    /\ nframes < MaxFrames
    /\ sock' = sock \o chunk
    /\ nframes' = nframes + 1
    /\ UNCHANGED << clientOnly, codec, inflight, rbuf, wbuf, wire, trace, logger >>

InitConn ==
    /\ sink \in BOOLEAN
    /\ address = BoundAddress
    /\ ids = NewClientIds
    /\ fresh = TRUE
    /\ issued = << >>
    /\ pc = "idle"
    /\ cmd = 0
    /\ response = << >>
    /\ result = NoResult
    /\ trace = << >>
    /\ skipped = 0
    /\ ahead = << >>
    /\ inflight = << >>
    /\ sock = << >>
    /\ rbuf = << >>
    /\ wbuf = << >>
    /\ wire = << >>
    /\ ncmds = 0
    /\ nframes = 0
    /\ call = NoCall
    /\ got = NoGot
    /\ race = NoRace
    /\ conn = 1
    /\ gone = << >>
    /\ logbuf = << >>
    /\ emitted = << >>
    /\ zone = "UTC"
    /\ udata = << >>
    /\ value = NoValue
    /\ ret = NoRet

NextConn ==
    \/ \E ok \in BOOLEAN : ConnPrepareRead(ok)
    \/ \E ok \in BOOLEAN : ConnPrepareWrite(ok)
    \/ \E want \in ReadSizes : ConnRead(want)
    \/ \E want \in ReadSizes : ConnReadError(want)
    \/ \E p \in WritePayloads : ConnWrite(p)
    \/ ConnFlush
    \/ ConnLogRequest
    \/ ConnLogResponse
    \/ \E chunk \in Chunks : PeerSend(chunk)

SpecConn == InitConn /\ [][NextConn]_vars

(***************************************************************************)
(* The calls of SpecConn, read back from trace.                            *)
(***************************************************************************)
\* the last of the first `to' calls that is one of ops, 0 if there is none
LastOf(ops, to) ==
    IF \E k \in 1..to : trace[k].op \in ops
    THEN CHOOSE k \in 1..to :
             /\ trace[k].op \in ops
             /\ \A j \in (k + 1)..to : trace[j].op \notin ops
    ELSE 0

\* the calls after call k are all calls of op
OnlySince(k, op) == \A j \in (k + 1)..Len(trace) : trace[j].op = op

\* the bytes the calls from call j on transferred: the first n of each buffer
transferred[j \in Nat] ==
    IF j > Len(trace) THEN << >>
    ELSE SubSeq(trace[j].p, 1, trace[j].n) \o transferred[j + 1]

\* the buffers of the successful calls of op from call j up to call k
buffers[j \in Nat, k \in Nat, op \in { "Read", "Write" }] ==
    IF j > k THEN << >>
    ELSE (IF trace[j].op = op /\ trace[j].ok THEN trace[j].p ELSE << >>)
             \o buffers[j + 1, k, op]

(***************************************************************************)
(* The Conn calls of the running command, read back from trace.            *)
(***************************************************************************)
\* the call at which the last header read of the loop was made, 0 if none
HeaderCallAt ==
    IF \E k \in 1..Len(trace) : trace[k].op = "PrepareRead"
    THEN LET p == CHOOSE k \in 1..Len(trace) :
                      /\ trace[k].op = "PrepareRead"
                      /\ \A j \in (k + 1)..Len(trace) : trace[j].op # "PrepareRead"
         IN  IF p < Len(trace) THEN p + 1 ELSE 0
    ELSE 0

\* the last header read returned without error
HeaderRead == HeaderCallAt > 0 /\ trace[HeaderCallAt].ok

\* ... and filled all 6 bytes of the header
HeaderComplete == HeaderRead /\ trace[HeaderCallAt].n = hdrLen

\* the body read of the last frame returned without error
BodyRead ==
    /\ HeaderRead
    /\ HeaderCallAt < Len(trace)
    /\ trace[HeaderCallAt + 1].op = "Read"
    /\ trace[HeaderCallAt + 1].ok

\* the frame had reached the socket whole when its header was read, so that
\* both reads were served in full: ahead is the frame as the line carried it
WholeFrameAhead ==
    /\ HeaderRead
    /\ Len(ahead) >= minFrameLen
    /\ Len(ahead) = ahead[6]

\* the last frame has been taken off the connection and decided upon
FrameDecided ==
    /\ WholeFrameAhead
    /\ pc \in { "prepRead", "done" }
    /\ Last(trace).op \in { "Read", "LogResponse" }
    /\ Last(trace).ok

\* the trailing 2 bytes of f, little-endian, are the crc of the bytes before
ChecksumMatches(f) ==
    LittleEndianUint16(SubSeq(f, Len(f) - 1, Len(f)))
        = update(reset, SubSeq(f, 1, Len(f) - 2))

(***************************************************************************)
(* C1.  If PrepareWrite, the write of the frame, the write of the checksum *)
(* bytes or Flush fails, command returns that error and calls nothing on   *)
(* the connection afterwards: the failed call is the last call of the      *)
(* command and the command has returned an i/o error.                      *)
(***************************************************************************)
C1_WriteFailureReturned ==
    \A k \in 1..Len(trace) :
        (trace[k].op \in { "PrepareWrite", "Write", "Flush" } /\ ~trace[k].ok)
            => /\ k = Len(trace)
               /\ pc = "done"
               /\ result.err.kind = "io"

(***************************************************************************)
(* C2.  A frame that carries an address other than the bound one is        *)
(* discarded whatever its function, length byte and checksum: once it has  *)
(* been taken off the connection, the command has not returned.            *)
(***************************************************************************)
C2_ForeignFrameDiscarded ==
    (FrameDecided /\ SubSeq(ahead, 1, 4) # address)
        => /\ pc = "prepRead"
           /\ result = NoResult

(***************************************************************************)
(* C3.  A frame with the bound address whose trailing 2 bytes differ from  *)
(* the crc of the bytes before them ends the command with ErrCRC and no    *)
(* payload.                                                                *)
(***************************************************************************)
C3_BadChecksumRejected ==
    (FrameDecided /\ SubSeq(ahead, 1, 4) = address /\ ~ChecksumMatches(ahead))
        => /\ pc = "done"
           /\ result = [err |-> ErrCRC, data |-> << >>]

(***************************************************************************)
(* C4, as stated.  On success command returns the bytes of the accepted    *)
(* frame at offsets 6 .. totalLength-3, all that lies between the header   *)
(* and the checksum.                                                       *)
(***************************************************************************)
C4_PayloadUpToChecksum ==
    (pc = "done" /\ result.err = NoErr)
        => result.data = SubSeq(response, hdrLen + 1, Len(response) - 2)

(***************************************************************************)
(* C4, amended.  On success command returns the bytes of the accepted      *)
(* frame at offsets 6 .. totalLength-5: what lies between the 6-byte       *)
(* header and the trailing 2-byte id and 2-byte checksum.  The accepted    *)
(* frame is the buffer readMessage returned, which is the frame of the     *)
(* line when that had arrived whole.                                       *)
(***************************************************************************)
C4_PayloadUpToId ==
    (pc = "done" /\ result.err = NoErr)
        => /\ result.data = SubSeq(response, hdrLen + 1, Len(response) - 4)
           /\ WholeFrameAhead => response = ahead

C4_PayloadReturned ==
    /\ pc = "done"
    /\ result.err = NoErr
    /\ WholeFrameAhead
    /\ result.data = << 7, 9 >>

C6_MinimalFrameAccepted ==
    (/\ FrameDecided
     /\ Len(ahead) = minFrameLen
     /\ SubSeq(ahead, 1, 4) = address
     /\ ChecksumMatches(ahead)
     /\ ahead[5] = cmd)
        => /\ pc = "done"
           /\ result = [err |-> NoErr, data |-> << >>]

(***************************************************************************)
(* C7.  A frame with the bound address and the function byte 0 ends the    *)
(* command with the ProtocolError of its first payload byte (offset 6)     *)
(* when its checksum is sound, and with ErrCRC when it is not.             *)
(***************************************************************************)
C7_ErrorFrameAfterChecksum ==
    (BodyRead /\ SubSeq(response, 1, 4) = address /\ response[5] = fnError)
        => /\ pc = "done"
           /\ result.data = << >>
           /\ result.err = IF ChecksumMatches(response)
                           THEN ProtocolError(response[7])
                           ELSE ErrCRC

C7_ProtocolErrorReturned ==
    /\ FrameDecided
    /\ response = ahead
    /\ ahead[5] = fnError
    /\ pc = "done"
    /\ result.err = ProtocolError(2)

(***************************************************************************)
(* C8.  A frame with the bound address and a sound checksum whose function *)
(* byte is neither 0 nor the function of the request ends the command      *)
(* with the wrong-function error and no payload.                           *)
(***************************************************************************)
C8_WrongFunctionRejected ==
    (/\ FrameDecided
     /\ SubSeq(ahead, 1, 4) = address
     /\ ChecksumMatches(ahead)
     /\ ahead[5] \notin { fnError, cmd })
        => /\ pc = "done"
           /\ result = [err |-> ErrWrongFunction, data |-> << >>]

(***************************************************************************)
(* C9.  nextId never returns 0, returns 1 on the first call of a client    *)
(* that NewClient made, and returns 1 after it returned 65535.             *)
(***************************************************************************)
C9_IdsSkipZero ==
    /\ \A k \in 1..Len(issued) : issued[k] \in 1..MaxUint16
    /\ (fresh /\ issued # << >>) => issued[1] = 1
    /\ \A k \in 1..(Len(issued) - 1) : issued[k] = MaxUint16 => issued[k + 1] = 1

C9_WrappedToOne ==
    /\ ids.hi = 0
    /\ \E k \in 1..(Len(issued) - 1) : issued[k] = MaxUint16 /\ issued[k + 1] = 1

(***************************************************************************)
(* C10.  Each id is the previous id plus 1, and 1 after 65535, also        *)
(* across the overflow of the uint32 counter; no id is issued twice in a   *)
(* row.                                                                    *)
(***************************************************************************)
C10_IdsConsecutive ==
    \A k \in 1..(Len(issued) - 1) :
        /\ issued[k + 1] = IF issued[k] = MaxUint16 THEN 1 ELSE issued[k] + 1
        /\ issued[k + 1] # issued[k]

(***************************************************************************)
(* C11.  When two goroutines have called nextId concurrently, the counter  *)
(* has advanced by two and they hold two different ids: the two ids that   *)
(* follow the one issued before.                                           *)
(***************************************************************************)
C11_ConcurrentIdsDistinct ==
    (\A t \in Threads : race.at[t] = "returned")
        => /\ ids = AddUint32(AddUint32(race.base))
           /\ race.id[1] # race.id[2]
           /\ { race.id[t] : t \in Threads }
                  = { nextId(AddUint32(race.base)), nextId(ids) }

\* the command has just flushed and logged its request
RequestWritten == wire # << >> /\ Last(trace).op = "LogRequest"

\* how many of the calls of the command went to the Conn method op
CountCalls(op) == Cardinality({ k \in 1..Len(trace) : trace[k].op = op })

(***************************************************************************)
(* C12.  Every request frame on the line is the bound address, the         *)
(* function, the length byte, the payload of the request, the id           *)
(* big-endian and the checksum little-endian; the length byte is 10 + N    *)
(* and is the number of bytes of the frame.                                *)
(***************************************************************************)
C12_RequestLayout ==
    \A k \in 1..Len(wire) :
        LET f == wire[k]
            N == Len(f) - 10
        IN  /\ N >= 0
            /\ SubSeq(f, 1, 4) = address
            /\ f[5] = cmd
            /\ f[6] = 10 + N
            /\ \E rq \in Requests : rq.cmd = cmd /\ rq.payload = SubSeq(f, 7, 6 + N)
            /\ 256 * f[7 + N] + f[8 + N] = Last(issued)
            /\ f[9 + N] + 256 * f[10 + N] = update(reset, SubSeq(f, 1, 8 + N))

C12_CurValuesRequestOnLine ==
    /\ Len(wire) = 1
    /\ cmd = fnReadValues
    /\ Len(wire[1]) = 14

(***************************************************************************)
(* C13.  The frame writeMessage has put on the line passes checkCrc, and   *)
(* the frame with any one byte changed to any other value fails it with    *)
(* ErrCRC.                                                                 *)
(***************************************************************************)
C13_SingleByteChangeDetected ==
    RequestWritten
        => LET f == Last(wire)
           IN  /\ checkCrc(f) = NoErr
               /\ \A i \in 1..Len(f) : \A v \in (0..255) \ { f[i] } :
                      checkCrc([f EXCEPT ![i] = v]) = ErrCRC

C13_FrameChecked ==
    /\ RequestWritten
    /\ pc = "prepRead"
    /\ checkCrc(Last(wire)) = NoErr

(***************************************************************************)
(* C14.  reset then update gives the CRC-16/MODBUS value: 0207 gives       *)
(* 0x1241, 01040040000a gives 0xD971 and the third vector of TestCrc       *)
(* gives 0xAED0; updating with a then with b is updating with a ++ b,      *)
(* wherever the request on the line is cut in two.                         *)
(***************************************************************************)
CrcVectors ==
    /\ update(reset, << 2, 7 >>) = 4673
    /\ update(reset, << 1, 4, 0, 64, 0, 10 >>) = 55665
    /\ update(reset, << 1, 4, 20, 58, 17, 230, 238, 59, 22, 196, 77, 57, 226, 66,
                        87, 56, 23, 48, 186, 61, 134, 36, 55 >>) = 44752

C14_CrcModbus ==
    /\ CrcVectors
    /\ RequestWritten
           => LET f == Last(wire)
                  body == SubSeq(f, 1, Len(f) - 2)
              IN  \A j \in 0..Len(body) :
                      update(update(reset, SubSeq(body, 1, j)),
                             SubSeq(body, j + 1, Len(body)))
                          = LittleEndianUint16(SubSeq(f, Len(f) - 1, Len(f)))

C14_SysTimeRequestSummed ==
    /\ RequestWritten
    /\ cmd = fnReadSysTime
    /\ LittleEndianUint16(SubSeq(Last(wire), 9, 10)) = update(reset, SubSeq(Last(wire), 1, 8))

(***************************************************************************)
(* C15.  The header is interpreted only after its 6 bytes were received,   *)
(* the frame only after its length - 6 remaining bytes were received:      *)
(* the header read and the body read behind a decision filled their        *)
(* buffers.                                                                *)
(***************************************************************************)
C15_DecisionsOnReceivedBytes ==
    /\ HeaderRead => trace[HeaderCallAt].n = hdrLen
    /\ BodyRead => trace[HeaderCallAt + 1].n = Len(response) - hdrLen

(***************************************************************************)
(* C16.  A command puts its request on the line at most once: one          *)
(* PrepareWrite, the two writes of the frame, one Flush, all before the    *)
(* first PrepareRead; skipped frames and read errors bring no further      *)
(* write.                                                                  *)
(***************************************************************************)
C16_RequestWrittenOnce ==
    /\ Len(wire) <= 1
    /\ CountCalls("PrepareWrite") <= 1
    /\ CountCalls("Write") <= 2
    /\ CountCalls("Flush") <= 1
    /\ CountCalls("LogRequest") <= 1
    /\ \A j \in 1..Len(trace) : \A k \in (j + 1)..Len(trace) :
           trace[j].op \in { "PrepareRead", "Read", "LogResponse" }
               => trace[k].op \in { "PrepareRead", "Read", "LogResponse" }

C16_NoResendAfterSkip ==
    /\ skipped >= 1
    /\ pc = "done"
    /\ result.err = IoErr("Read")
    /\ Len(wire) = 1

\* bit b (0 the lowest) of the uint32 whose little-endian bytes are m
MaskBit(m, b) == (m[1 + (b \div 8)] \div (2 ^ (b % 8))) % 2 = 1

(***************************************************************************)
(* C17.  CurValues, PulseWeight, LineTest and InputTest with an empty      *)
(* list or a list that holds 0 return a validation error; no method of     *)
(* the connection has been called, nothing is on the line and the counter  *)
(* is where NewClient left it.                                             *)
(***************************************************************************)
C17_InvalidListRejectedBeforeIo ==
    (/\ call.api \in ListApis
     /\ (call.chs = << >> \/ \E k \in 1..Len(call.chs) : call.chs[k] = 0))
        => /\ pc = "done"
           /\ result.err \in ValidationErrors
           /\ result.data = << >>
           /\ trace = << >>
           /\ wire = << >>
           /\ ids = NewClientIds
           /\ issued = << >>

C17_ZeroChannelRejected ==
    /\ call = [api |-> "CurValues", chs |-> << 1, 0 >>]
    /\ pc = "done"
    /\ result.err = ErrZeroChannel
    /\ trace = << >>
    /\ ids = NewClientIds

(***************************************************************************)
(* C18.  For a list of channels in 1..32, in any order and with            *)
(* repetitions, the mask in the request has bit i - 1 set exactly for the  *)
(* channels i of the list.                                                 *)
(***************************************************************************)
C18_MaskBitsAreChannels ==
    (/\ call.api \in ListApis
     /\ RequestWritten
     /\ \A k \in 1..Len(call.chs) : call.chs[k] \in 1..maxChanNum)
        => \A b \in 0..31 :
               MaskBit(SubSeq(Last(wire), 7, 10), b)
                   <=> \E k \in 1..Len(call.chs) : call.chs[k] = b + 1

(***************************************************************************)
(* C19.  Every method that takes channels refuses a channel outside        *)
(* 1..32 with a validation error before anything is written, and no        *)
(* request on the line carries the mask 0.                                 *)
(***************************************************************************)
C19_ChannelRangeEnforced ==
    /\ (/\ call.api \in ListApis \cup ChannelApis
        /\ \E k \in 1..Len(call.chs) : call.chs[k] \notin 1..maxChanNum)
           => /\ pc = "done"
              /\ result.err \in ValidationErrors
              /\ trace = << >>
    /\ \A k \in 1..Len(wire) : SubSeq(wire[k], 7, 10) # << 0, 0, 0, 0 >>

(***************************************************************************)
(* C20.  What the command makes of a response does not depend on the 2 id  *)
(* bytes of the response: the outcome is given by the length, the          *)
(* address, the soundness of the checksum, the function and the payload    *)
(* of the frame alone, whatever id the frame and the request carry.        *)
(***************************************************************************)
C20_OutcomeIgnoresResponseId ==
    FrameDecided
        => LET payload == SubSeq(ahead, 7, Len(ahead) - 4)
           IN  IF Len(ahead) = minFrameLen
                   THEN pc = "done" /\ result = [err |-> ErrInvalidFrame, data |-> << >>]
               ELSE IF SubSeq(ahead, 1, 4) # address
                   THEN pc = "prepRead" /\ result = NoResult
               ELSE IF ~ChecksumMatches(ahead)
                   THEN pc = "done" /\ result = [err |-> ErrCRC, data |-> << >>]
               ELSE IF ahead[5] = fnError
                   THEN pc = "done"
                        /\ result = [err |-> ProtocolError(payload[1]), data |-> << >>]
               ELSE IF ahead[5] # cmd
                   THEN pc = "done" /\ result = [err |-> ErrWrongFunction, data |-> << >>]
               ELSE pc = "done" /\ result = [err |-> NoErr, data |-> payload]

C20_OtherIdAccepted ==
    /\ FrameDecided
    /\ Last(issued) = 1
    /\ SubSeq(ahead, Len(ahead) - 3, Len(ahead) - 2) = << 0, 2 >>
    /\ pc = "done"
    /\ result = [err |-> NoErr, data |-> << 7, 9 >>]

(***************************************************************************)
(* C21.  The command returns at once when a Read fails or times out, when  *)
(* the header's length is refused, and when the body of a frame with the   *)
(* bound address has been read; a frame with another address sends it      *)
(* back to PrepareRead with one more frame skipped, whatever the number    *)
(* skipped before.  Once the request is written, the command returns in    *)
(* every run in which the frames on the line are finitely many.            *)
(***************************************************************************)
C21_ReturnsUnlessForeign ==
    /\ [][ /\ (Len(trace') > Len(trace) /\ Last(trace').op = "Read"
                    /\ ~Last(trace').ok)
                => (pc' = "done" /\ result'.err = IoErr("Read"))
           /\ (pc = "readHeader" /\ pc' # pc /\ Last(trace').ok)
                => IF headerTooShort(bodyLen(response'))
                   THEN pc' = "done" /\ result'.err = ErrInvalidFrame
                   ELSE pc' = "readBody"
           /\ (pc = "readBody" /\ pc' # pc /\ Last(trace').ok)
                => IF SubSeq(response', 1, 4) = address
                   THEN pc' = "done" /\ skipped' = skipped
                   ELSE pc' = "prepRead" /\ skipped' = skipped + 1
                        /\ result' = NoResult ]_vars
    /\ (pc = "prepRead") ~> (pc = "done")

C21_EveryFrameSkipped ==
    /\ pc = "prepRead"
    /\ skipped = MaxFrames
    /\ nframes = MaxFrames

(***************************************************************************)
(* C22.  Discover writes the 11-byte discovery frame and reads once, 10    *)
(* bytes, whatever address the answer carries.  For every answer that      *)
(* reached the socket whole, Discover returns a client whose address is    *)
(* the big-endian value at offsets 4..7 when the checksum of the answer    *)
(* is valid, and the checksum error and no client when it is not.          *)
(***************************************************************************)
DiscoverReturned ==
    /\ pc = "done"
    /\ Len(trace) = 7
    /\ trace[6] = Call("Read", TRUE, minFrameLen)
    /\ Len(ahead) = minFrameLen

C22_DiscoverBindsAddress ==
    /\ (pc \in { "discoverPrepRead", "discoverRead", "done" } /\ Len(trace) >= 4)
            => /\ wire = << discoveryMessage >>
               /\ Len(discoveryMessage) = 11
               /\ CountCalls("Read") <= 1
    /\ DiscoverReturned
            => IF ChecksumMatches(ahead)
               THEN result.err = NoErr /\ address = SubSeq(ahead, 5, 8)
               ELSE result.err = ErrCRC /\ address = << >>

(***************************************************************************)
(* C23.  Reset(conn) changes the connection only.  The address stays the   *)
(* bound one; the first id issued after a Reset is the successor of the    *)
(* last id issued before it; and every request goes to the connection      *)
(* the client holds when it is written: the line of a replaced connection  *)
(* carries only requests with ids issued while the client held it, the     *)
(* line of the current one only requests with ids issued since the last    *)
(* Reset.                                                                  *)
(***************************************************************************)
IdOf(frame) == frame[Len(frame) - 3] * 256 + frame[Len(frame) - 2]

IssuedBetween(from, to) == { issued[k] : k \in (from + 1)..to }

HeldFrom(g) == IF g = 1 THEN 0 ELSE gone[g - 1].issued

C23_ResetKeepsAddressAndIds ==
    /\ address = BoundAddress
    /\ conn = 1 + Len(gone)
    /\ \A g \in 1..Len(gone) :
            LET k == gone[g].issued
            IN  /\ (k >= 1 /\ Len(issued) > k)
                    => issued[k + 1] = IF issued[k] = MaxUint16 THEN 1 ELSE issued[k] + 1
                /\ \A j \in 1..Len(gone[g].line) :
                        IdOf(gone[g].line[j]) \in IssuedBetween(HeldFrom(g), k)
    /\ \A j \in 1..Len(wire) :
            IdOf(wire[j]) \in IssuedBetween(HeldFrom(Len(gone) + 1), Len(issued))

(***************************************************************************)
(* C24.  For every 6-byte input that is a valid date and time (month       *)
(* 1..12, a day the month has in the year 2000 + data[0], hour 0..23,      *)
(* minute and second 0..59), MarshalBinary of what UnmarshalBinary         *)
(* decoded returns the 6 bytes of the input.                               *)
(***************************************************************************)
ValidTimestamp(b) ==
    /\ Len(b) = sysTimeLen
    /\ b[2] \in 1..12
    /\ b[3] >= 1
    /\ b[3] <= monthStart(2000 + b[1], b[2] + 1) - monthStart(2000 + b[1], b[2])
    /\ b[4] \in 0..23
    /\ b[5] \in 0..59
    /\ b[6] \in 0..59

C24_SysTimeRoundTrip ==
    (ret.at = "sysTime.MarshalBinary" /\ ValidTimestamp(udata)) => ret.bytes = udata

WholeSamples ==
    /\ ret.at = "ChannelLog.UnmarshalBinary"
    /\ ret.recv = NewChannelLog
    /\ Len(udata) >= 10
    /\ (Len(udata) - 10) % 4 = 0

C26_ChannelLogDecoded ==
    WholeSamples
        => /\ ret.err = NoErr
           /\ value.Id = [hi |-> udata[3] + 256 * udata[4],
                          lo |-> udata[1] + 256 * udata[2]]
           /\ value.Start = sysTimeUnmarshal(NoValue, SubSeq(udata, 5, 10), zone).t
           /\ Len(value.Values) = (Len(udata) - 10) \div 4
           /\ \A k \in 0..(Len(value.Values) - 1) :
                  value.Values[k + 1].bits
                      = [hi |-> udata[13 + 4 * k] + 256 * udata[14 + 4 * k],
                         lo |-> udata[11 + 4 * k] + 256 * udata[12 + 4 * k]]

C26_TestPayloadDecoded ==
    /\ WholeSamples
    /\ udata = chanLogPayload
    /\ value.Id = [hi |-> 0, lo |-> 1]
    /\ Year(value.Start) = 2022 /\ Month(value.Start) = 9 /\ Day(value.Start) = 5
    /\ value.Start.hour = 13 /\ value.Start.min = 0 /\ value.Start.sec = 0
    /\ Len(value.Values) = 25

(***************************************************************************)
(* C27.  For an input of L >= 10 bytes that ends in a partial float32      *)
(* ((L - 10) mod 4 is 1, 2 or 3), ChannelLog.UnmarshalBinary returns the   *)
(* too-short error, the one it returns for fewer than 10 bytes.            *)
(***************************************************************************)
C27_PartialSampleTooShort ==
    ( /\ ret.at = "ChannelLog.UnmarshalBinary"
      /\ Len(udata) >= 10
      /\ (Len(udata) - 10) % 4 \in 1..3 )
        => ret.err = ToShort



\* C28: with a diagnostic sink, after Read calls only since the last
\* PrepareRead the capture buffer is the concatenation of the first n bytes
\* of each read's buffer, n being the count the read returned, and after
\* Write calls only since the last PrepareWrite it is the concatenation of
\* the bytes written.
C28_CaptureIsTransferred ==
    sink =>
        /\ LET k == LastOf({ "PrepareRead" }, Len(trace))
           IN  k > 0 /\ OnlySince(k, "Read") => logbuf = transferred[k + 1]
        /\ LET k == LastOf({ "PrepareWrite" }, Len(trace))
           IN  k > 0 /\ OnlySince(k, "Write") => logbuf = transferred[k + 1]

\* C29: with a diagnostic sink and for any order of calls, LogResponse emits
\* the buffers of the reads since the last PrepareRead or LogResponse and
\* nothing else, and LogRequest emits the bytes of the writes since the last
\* PrepareWrite or LogRequest and nothing else: neither direction's calls add
\* to or empty the other direction's capture.
C29_CapturesIndependent ==
    sink /\ trace # << >> =>
        LET k == Len(trace)
        IN  /\ trace[k].op = "LogResponse" =>
                   trace[k].p =
                       buffers[LastOf({ "PrepareRead", "LogResponse" }, k - 1) + 1,
                               k, "Read"]
            /\ trace[k].op = "LogRequest" =>
                   trace[k].p =
                       buffers[LastOf({ "PrepareWrite", "LogRequest" }, k - 1) + 1,
                               k, "Write"]

\* C30: on a connection without a diagnostic sink the capture buffer is empty
\* after any sequence of PrepareRead, PrepareWrite, Read, Write, LogRequest
\* and LogResponse calls, and LogRequest and LogResponse emit nothing.
C30_NoSinkNoCapture ==
    ~sink =>
        /\ logbuf = << >>
        /\ emitted = << >>
        /\ \A k \in 1..Len(trace) :
               trace[k].op \in { "LogRequest", "LogResponse" } => trace[k].p = << >>

C30_UnloggedTraffic ==
    /\ ~sink
    /\ \E i, j, k \in 1..Len(trace) :
           /\ i < k
           /\ j < k
           /\ trace[i].op = "Read" /\ trace[i].ok /\ trace[i].n > 0
           /\ trace[j].op = "Write" /\ trace[j].n > 0
           /\ trace[k].op \in { "LogRequest", "LogResponse" }

\* C31: in every operation of the client (a command, Model, Discover)
\* PrepareWrite is called exactly once, before the writes of the request,
\* PrepareRead is called exactly once before the reads of each response
\* frame, skipped frames included, and no Read or Write is made without the
\* prepare call of its frame before it.
C31_PreparedOncePerFrame ==
    \A k \in 1..Len(trace) :
        /\ trace[k].op = "PrepareWrite" => k = 1
        /\ trace[k].op = "Write" => trace[1].op = "PrepareWrite" /\ trace[1].ok
        /\ trace[k].op = "PrepareRead" => k > 1 /\ trace[k - 1].op # "PrepareRead"
        /\ trace[k].op = "Read" =>
               \/ k > 1 /\ trace[k - 1] = Call("PrepareRead", TRUE, 0)
               \/ /\ k > 2
                  /\ trace[k - 1].op = "Read"
                  /\ trace[k - 2] = Call("PrepareRead", TRUE, 0)

\* C33: a command calls LogRequest only after a Flush that succeeded, and
\* LogResponse only when it returns success: a command that fails (read
\* error, invalid frame, checksum error, device error, function mismatch)
\* logs no response.
C33_LoggedOnlyOnSuccess ==
    /\ \A k \in 1..Len(trace) :
           trace[k].op = "LogRequest" => k > 1 /\ trace[k - 1] = Call("Flush", TRUE, 0)
    /\ (\E k \in 1..Len(trace) : trace[k].op = "LogResponse") =>
           pc = "done" /\ result.err = NoErr

\* C34: no received byte is lost between frames: when the receive loop has
\* skipped a foreign frame and prepares the next read, the bytes received
\* and not yet parsed stay as they are, those the buffered reader had
\* already fetched included, so that the next frame is parsed from the
\* byte that follows the skipped frame.
C34_NoByteLostAfterSkip ==
    [][pc = "prepRead" /\ skipped > 0 /\ pc' = "readHeader" =>
           rbuf' \o sock' \o inflight' = rbuf \o sock \o inflight]_vars

\* C36: with the commands made one after the other, the payload a command
\* returns comes from the frame the device sent in reply to the request of
\* that command: the reply to an earlier request, arriving after that
\* request's command ended with a read timeout, is never returned by a
\* later command.
C36_ReplyToOwnRequest ==
    pc = "done" /\ result.err = NoErr => IdOf(response) = Last(issued)

\* C32: DayLightSaving returns (true, nil) exactly when the exchange
\* succeeds and the low 16 bits of the parameter value are not zero,
\* (false, nil) when it succeeds and they are zero, and (false, err) when
\* the exchange fails, without faulting on the payload that is missing then.
C32_DayLightSavingResult ==
    pc = "done" /\ call.api = "DayLightSaving" =>
        /\ ~got.panic
        /\ got.err = result.err
        /\ IF result.err = NoErr
           THEN Len(result.data) >= 2 =>
                    got.value = (LittleEndianUint16(result.data) # 0)
           ELSE got.value = FALSE

Decoding ==
    { "SetSysTime", "SetCurValue", "SetPulseWeight", "SetDayLightSaving",
      "FirmwareVersion", "SerialSpeed", "LineTest", "InputTest", "DayLightSaving" }

\* C35: for every response the command accepts, each method built on it
\* (SetSysTime, SetCurValue, SetPulseWeight, setParam, FirmwareVersion,
\* SerialSpeed, LineTest, InputTest, DayLightSaving) returns a value or an
\* error: a payload shorter than the method decodes gives an error, never
\* an access beyond the end of the payload.
C35_ShortPayloadIsAnError ==
    pc = "done" /\ call.api \in Decoding /\ result.err = NoErr => ~got.panic

\* C37: CurValues and PulseWeight called with distinct channels, in any
\* order: the result has one entry per channel, the i-th entry has the i-th
\* smallest channel and the i-th value of the payload (8 bytes for
\* CurValues, 4 for PulseWeight); a payload with fewer values than channels
\* gives an error and no entry.
C37_ValuesPairedAscending ==
    /\ pc = "done"
    /\ call.api \in { "CurValues", "PulseWeight" }
    /\ result.err = NoErr
    /\ \A i, j \in 1..Len(call.chs) : call.chs[i] = call.chs[j] => i = j
    => LET w == IF call.api = "CurValues" THEN 8 ELSE 4
           n == Len(call.chs)
           field(i) == SubSeq(result.data, (i - 1) * w + 1, i * w)
           bits(i) == IF w = 8 THEN LittleEndianUint64(field(i))
                      ELSE LittleEndianUint32(field(i))
       IN  /\ ~got.panic
           /\ IF Len(result.data) >= n * w
              THEN /\ got.err = NoErr
                   /\ Len(got.value) = n
                   /\ \A i \in 1..n :
                          /\ got.value[i].Id \in { call.chs[k] : k \in 1..n }
                          /\ Cardinality({ k \in 1..n : call.chs[k] < got.value[i].Id })
                                 = i - 1
                          /\ got.value[i].Value = [bits |-> bits(i)]
              ELSE got.err # NoErr /\ got.value = << >>

C37_DescendingArgumentsPaired ==
    /\ pc = "done"
    /\ call = [api |-> "CurValues", chs |-> << 2, 1 >>]
    /\ got = [panic |-> FALSE, err |-> NoErr,
              value |-> << [Id |-> 1, Value |-> [bits |-> [w3 |-> 0, w2 |-> 0, w1 |-> 0, w0 |-> 1]]],
                           [Id |-> 2, Value |-> [bits |-> [w3 |-> 0, w2 |-> 0, w1 |-> 0, w0 |-> 2]]] >>]


=============================================================================
